---------------------------- MODULE Spec2Model ----------------------------
(***************************************************************************)
(* Model of analytics/pipeline.py: the incremental Shopify ETL pipeline.   *)
(*                                                                         *)
(* Time.  The upstream clock runs in ticks, TicksPerSec ticks to a second  *)
(* (the upstream has sub-second precision, the store keeps whole seconds). *)
(* A stored DATETIME is a number of seconds, a DATE a number of days and   *)
(* an hour-of-day a number below HoursPerDay.  All timestamps are wall     *)
(* clock times of the one timezone the program works in (IST).             *)
(*                                                                         *)
(* Money.  A DECIMAL(12,2) amount is a whole number of cents.  A monetary  *)
(* field of an upstream snapshot is a record [st, v]: st = "num" for a     *)
(* parsable number v, "absent" for a missing/empty field, "bad" for a      *)
(* string float() rejects.                                                 *)
(***************************************************************************)
EXTENDS Integers, Sequences, FiniteSets

(***************************************************************************)
(* Bounds of the model.                                                    *)
(***************************************************************************)
TicksPerSec == 2
SecsPerHour == 1
HoursPerDay == 2
MaxOrderId == 2
MaxPrice == 2
MaxBatch == 2
MaxApply == 2
MaxClock == 5
MaxEvents == 2
MaxFaults == 1
MaxRuns == 2
MaxVisits == 1
PageSize == 1
SeqMod == 2
MaxRefunds == 1
MaxBrands == 3
CPU_COUNT == 2
MaxExecs == 2
MaxCalls == 2

(***************************************************************************)
(* Time conversions.                                                       *)
(***************************************************************************)
SecsPerDay == SecsPerHour * HoursPerDay

\* format_datetime: an upstream ISO timestamp to the stored DATETIME string;
\* strftime('%Y-%m-%d %H:%M:%S') drops the fraction of a second.
format_datetime(tick) == tick \div TicksPerSec

\* _parse_iso_to_ist_date: the calendar date of an upstream timestamp.
_parse_iso_to_ist_date(tick) == (tick \div TicksPerSec) \div SecsPerDay

\* extract_date_time: the date and the time-of-day part of the ISO string;
\* HOUR(created_time) in the summary queries reads the hour of the latter.
extract_date(tick) == (tick \div TicksPerSec) \div SecsPerDay
extract_hour(tick) == ((tick \div TicksPerSec) % SecsPerDay) \div SecsPerHour

DateOfSec(sec) == sec \div SecsPerDay

(***************************************************************************)
(* Small helpers.                                                          *)
(***************************************************************************)
Abs(x) == IF x < 0 THEN 0 - x ELSE x
Max2(a, b) == IF a >= b THEN a ELSE b
Min2(a, b) == IF a <= b THEN a ELSE b
SetMax(S) == CHOOSE x \in S : \A y \in S : y <= x
SetMin(S) == CHOOSE x \in S : \A y \in S : x <= y

RECURSIVE SumSet(_, _)
\* Sum of f[x] over the finite set S.
SumSet(f, S) ==
    IF S = {} THEN 0
    ELSE LET x == CHOOSE y \in S : TRUE IN f[x] + SumSet(f, S \ {x})

\* dict.get(key, default) and dict[key] = value on a function used as a dict.
DictGet(d, k, dflt) == IF k \in DOMAIN d THEN d[k] ELSE dflt
DictPut(d, k, v) == [x \in (DOMAIN d) \cup {k} |-> IF x = k THEN v ELSE d[x]]
EmptyDict == [x \in {} |-> 0]

Num(v) == [st |-> "num", v |-> v]
AbsentMoney == [st |-> "absent", v |-> 0]
BadMoney == [st |-> "bad", v |-> 0]

(***************************************************************************)
(* Returns reconciliation: upsert_returns_fact_from_orders.                *)
(*                                                                         *)
(* A snapshot is a record                                                  *)
(*   [id, created_at, updated_at, cancelled_at, total_price,               *)
(*    financial_status, app, discount, gateway, refunds]                   *)
(* with cancelled_at a sequence of length 0 (None) or 1, and refunds a     *)
(* sequence of [created_at, transactions], transactions a sequence of      *)
(* [kind, amount].  An id of 0 stands for a missing id.                    *)
(***************************************************************************)
RefundKinds == {"refund", "chargeback", "return"}

\* float(x or 0.0): raises on a malformed string.
FloatRaises(m) == m.st = "bad"
FloatOf(m) == IF m.st = "num" THEN m.v ELSE 0

RECURSIVE RefundSumOf_AllKinds(_)
\* A variant of the inner loop without the test of the transaction's kind.
RefundSumOf_AllKinds(txns) ==
    IF txns = <<>> THEN 0
    ELSE LET t == Head(txns)
             rest == RefundSumOf_AllKinds(Tail(txns))
         IN IF ~FloatRaises(t.amount)
            THEN Abs(FloatOf(t.amount)) + rest
            ELSE rest

RECURSIVE RefundSumOf(_)
\* The inner loop over rf['transactions']: a transaction of a refund kind
\* adds abs(amount); one whose amount float() rejects is skipped.
RefundSumOf(txns) ==
    IF txns = <<>> THEN 0
    ELSE LET t == Head(txns)
             rest == RefundSumOf(Tail(txns))
         IN IF t.kind \in RefundKinds /\ ~FloatRaises(t.amount)
            THEN Abs(FloatOf(t.amount)) + rest
            ELSE rest

RECURSIVE AggRefunds(_, _, _)
\* The loop over o['refunds'] for one snapshot with id oid.
AggRefunds(agg, oid, refunds) ==
    IF refunds = <<>> THEN agg
    ELSE LET rf == Head(refunds)
             rdate == _parse_iso_to_ist_date(rf.created_at)
             refund_sum == RefundSumOf(rf.transactions)
             key == <<oid, "REFUND", rdate>>
             agg1 == IF refund_sum > 0
                     THEN DictPut(agg, key, DictGet(agg, key, 0) + refund_sum)
                     ELSE agg
         IN AggRefunds(agg1, oid, Tail(refunds))

\* A variant of the CANCEL part that dates the fact by the snapshot's
\* creation instead of its cancellation.
AggCancel_CreatedDate(agg, o) ==
    IF o.cancelled_at # <<>>
    THEN LET d == _parse_iso_to_ist_date(o.created_at)
             key == <<o.id, "CANCEL", d>>
         IN DictPut(agg, key, Max2(DictGet(agg, key, 0), FloatOf(o.total_price)))
    ELSE agg

\* The CANCEL part of the loop body for one snapshot.
AggCancel(agg, o) ==
    IF o.cancelled_at # <<>>
    THEN LET d == _parse_iso_to_ist_date(o.cancelled_at[1])
             key == <<o.id, "CANCEL", d>>
         IN DictPut(agg, key, Max2(DictGet(agg, key, 0), FloatOf(o.total_price)))
    ELSE agg

RECURSIVE AggOrders(_, _)
\* The loop over orders_list building agg; a snapshot without an id is skipped.
AggOrders(agg, orders_list) ==
    IF orders_list = <<>> THEN agg
    ELSE LET o == Head(orders_list)
             agg1 == IF o.id = 0 THEN agg
                     ELSE AggRefunds(AggCancel(agg, o), o.id, o.refunds)
         IN AggOrders(agg1, Tail(orders_list))

\* float(o.get('total_price') or 0.0) is outside any try block: a malformed
\* total price of a cancelled snapshot raises out of the reconciler.
ReconcileRaises(orders_list) ==
    \E i \in 1..Len(orders_list) :
        LET o == orders_list[i]
        IN o.id # 0 /\ o.cancelled_at # <<>> /\ FloatRaises(o.total_price)

\* rows = [(order_id, event_date, event_type, round(v, 2)) ...]
FactRows(agg) ==
    { [order_id |-> k[1], event_type |-> k[2], event_date |-> k[3], amount |-> agg[k]]
      : k \in DOMAIN agg }

\* A variant of the upsert on a table without the primary key: plain INSERT.
UpsertRows_Append(store, rows) == store \cup rows

\* A variant of the upsert that keeps the greater of the stored and the new
\* amount (ON DUPLICATE KEY UPDATE amount = GREATEST(amount, VALUES(amount))).
UpsertRows_KeepMax(store, rows) ==
    { f \in store :
        ~\E r \in rows : /\ r.order_id = f.order_id
                         /\ r.event_type = f.event_type
                         /\ r.event_date = f.event_date }
    \cup { [r EXCEPT !.amount =
               IF \E f \in store : /\ f.order_id = r.order_id
                                    /\ f.event_type = r.event_type
                                    /\ f.event_date = r.event_date
                                    /\ f.amount > r.amount
               THEN (CHOOSE f \in store : /\ f.order_id = r.order_id
                                          /\ f.event_type = r.event_type
                                          /\ f.event_date = r.event_date
                                          /\ f.amount > r.amount).amount
               ELSE @]
          : r \in rows }

\* A variant of the upsert that adds the new amount to the stored one
\* (ON DUPLICATE KEY UPDATE amount = amount + VALUES(amount)).
UpsertRows_Accumulate(store, rows) ==
    { f \in store :
        ~\E r \in rows : /\ r.order_id = f.order_id
                         /\ r.event_type = f.event_type
                         /\ r.event_date = f.event_date }
    \cup { [r EXCEPT !.amount =
               @ + SumSet([f \in { g \in store : /\ g.order_id = r.order_id
                                                 /\ g.event_type = r.event_type
                                                 /\ g.event_date = r.event_date }
                            |-> f.amount],
                          { g \in store : /\ g.order_id = r.order_id
                                          /\ g.event_type = r.event_type
                                          /\ g.event_date = r.event_date })]
          : r \in rows }

\* INSERT ... ON DUPLICATE KEY UPDATE amount = VALUES(amount) on the primary
\* key (order_id, event_type, event_date).
UpsertRows(store, rows) ==
    { f \in store :
        ~\E r \in rows : /\ r.order_id = f.order_id
                         /\ r.event_type = f.event_type
                         /\ r.event_date = f.event_date }
    \cup rows

\* The fact store after upsert_returns_fact_from_orders returned normally.
upsert_returns_fact_from_orders(store, orders_list) ==
    UpsertRows(store, FactRows(AggOrders(EmptyDict, orders_list)))


(***************************************************************************)
(* Order tables.  shopify_orders and shopify_orders_update have no key and *)
(* are only appended to: a table is a bag of rows, a function from row to  *)
(* the number of copies stored.                                            *)
(***************************************************************************)
EmptyBag == [x \in {} |-> 0]
BagAdd(B, row) ==
    [x \in (DOMAIN B) \cup {row} |->
        IF x = row THEN (IF row \in DOMAIN B THEN B[row] + 1 ELSE 1) ELSE B[x]]

\* A variant of the load that replaces the table by the frame
\* (if_exists='replace').
BagAddAll_Replace(B, rows) ==
    IF rows = <<>> THEN B
    ELSE [x \in { rows[k] : k \in 1..Len(rows) } |->
            Cardinality({ k \in 1..Len(rows) : rows[k] = x })]

RECURSIVE BagAddAll(_, _)
\* df.to_sql(if_exists='append'): every row of the frame, in order.
BagAddAll(B, rows) ==
    IF rows = <<>> THEN B ELSE BagAddAll(BagAdd(B, Head(rows)), Tail(rows))

\* SUM(val) over the rows S selected from bag B, copies counted; val is a
\* function of the row.
BagSum(B, val, S) == SumSet([r \in S |-> val[r] * B[r]], S)

\* COUNT(DISTINCT order_id) over the rows S.
CountDistinctIds(S) == Cardinality({ r.order_id : r \in S })

\* Number of stored rows of order id oid.
RowsOfId(B, oid) ==
    BagSum(B, [r \in DOMAIN B |-> 1], { r \in DOMAIN B : r.order_id = oid })

\* transform_orders_to_df_optimized, for one snapshot (one line item each).
TransformOrder(o) ==
    [ order_id |-> o.id,
      created_at |-> format_datetime(o.created_at),
      created_date |-> extract_date(o.created_at),
      created_hour |-> extract_hour(o.created_at),
      updated_at |-> format_datetime(o.updated_at),
      updated_date |-> extract_date(o.updated_at),
      total_price |-> FloatOf(o.total_price),
      financial_status |-> o.financial_status,
      order_app_name |-> o.app,
      discount_amount |-> o.discount,
      payment_gateway_names |-> o.gateway,
      line_item_price |-> FloatOf(o.total_price),
      line_item_quantity |-> 1 ]

\* float(order.get('total_price', 0)) in the transform raises on a malformed field.
TransformRaises(orders_list) ==
    \E i \in 1..Len(orders_list) : FloatRaises(orders_list[i].total_price)

transform_orders_to_df_optimized(orders_list) ==
    [i \in 1..Len(orders_list) |-> TransformOrder(orders_list[i])]

(***************************************************************************)
(* Summary tables.  Each is a set of rows keyed by date (hour_wise_sales   *)
(* by date and hour).  The operators below give the rows the INSERT ...    *)
(* SELECT of each update_*_incremental produces for the range [lo, hi].    *)
(***************************************************************************)
InRange(d, lo, hi) == lo <= d /\ d <= hi

\* financial_status NOT IN ('paid', 'pending')
IsReturnStatus(r) == r.financial_status \notin {"paid", "pending"}

\* payment_gateway_names IS NULL OR = '' OR LIKE COD patterns
IsCodGateway(r) == r.payment_gateway_names \in {"none", "cod"}
\* NOT NULL, not '', not COD and not 'Gokwik PPCOD'
IsPrepaidGateway(r) == r.payment_gateway_names \notin {"none", "cod", "ppcod"}
IsPartialGateway(r) == r.payment_gateway_names = "ppcod"

\* RefundsByDate: SUM(amount) of the REFUND rows of returns_fact for date d.
RefundsByDate(facts, d) ==
    LET S == { f \in facts : f.event_type = "REFUND" /\ f.event_date = d }
    IN SumSet([f \in S |-> f.amount], S)

SalesOf(orders, app, d) ==
    BagSum(orders, [r \in DOMAIN orders |-> r.total_price],
           { r \in DOMAIN orders : r.created_date = d /\ r.order_app_name = app })

ReturnsOf(upd, app, d) ==
    BagSum(upd, [r \in DOMAIN upd |-> r.total_price],
           { r \in DOMAIN upd :
               r.updated_date = d /\ IsReturnStatus(r) /\ r.order_app_name = app })

SalesDates(orders) == { r.created_date : r \in DOMAIN orders }
ReturnsDates(upd) == { r.updated_date : r \in { x \in DOMAIN upd : IsReturnStatus(x) } }
RefundDates(facts) == { f.event_date : f \in { x \in facts : x.event_type = "REFUND" } }

\* A variant of overall_returns that sums every fact row of the date,
\* CANCEL rows included.
OverallReturns_AllFacts(facts, d) ==
    LET S == { f \in facts : f.event_date = d }
    IN SumSet([f \in S |-> f.amount], S)

\* The overall_returns column of sales_summary for date d.
OverallReturns(facts, d) == RefundsByDate(facts, d)

\* update_sales_summary_incremental: the rows inserted for [lo, hi].
SalesRows(orders, upd, facts, lo, hi) ==
    LET AllDates == { d \in SalesDates(orders) \cup ReturnsDates(upd) \cup RefundDates(facts) :
                        InRange(d, lo, hi) }
    IN { [ date |-> d,
           gokwik_sales |-> SalesOf(orders, "GoKwik", d),
           gokwik_returns |-> ReturnsOf(upd, "GoKwik", d),
           actual_gokwik_sale |-> SalesOf(orders, "GoKwik", d) - ReturnsOf(upd, "GoKwik", d),
           hypd_store_sales |-> SalesOf(orders, "HYPD_store", d),
           hypd_store_returns |-> ReturnsOf(upd, "HYPD_store", d),
           actual_hypd_store_sale |->
               SalesOf(orders, "HYPD_store", d) - ReturnsOf(upd, "HYPD_store", d),
           overall_sales_WO_hypd |-> SalesOf(orders, "GoKwik", d),
           overall_returns_WO_hypd |-> ReturnsOf(upd, "GoKwik", d),
           actual_overall_sales_WO_hypd |->
               SalesOf(orders, "GoKwik", d) - ReturnsOf(upd, "GoKwik", d),
           overall_sales |-> SalesOf(orders, "GoKwik", d) + SalesOf(orders, "HYPD_store", d),
           overall_returns |-> OverallReturns(facts, d),
           actual_overall_sales |->
               SalesOf(orders, "GoKwik", d) + SalesOf(orders, "HYPD_store", d)
               - OverallReturns(facts, d) ] : d \in AllDates }

\* update_order_summary_incremental: the rows inserted for [lo, hi].
OrderRows(orders, upd, lo, hi) ==
    LET Created(d, sel(_)) ==
            CountDistinctIds({ r \in DOMAIN orders : r.created_date = d /\ sel(r) })
        Returned(d, sel(_)) ==
            CountDistinctIds({ r \in DOMAIN upd :
                                 r.updated_date = d /\ IsReturnStatus(r) /\ sel(r) })
        Any(r) == TRUE
        AllDates == { d \in SalesDates(orders) \cup ReturnsDates(upd) : InRange(d, lo, hi) }
    IN { [ date |-> d,
           number_of_orders_created |-> Created(d, Any),
           number_of_orders_returned |-> Returned(d, Any),
           actual_number_of_orders |-> Created(d, Any) - Returned(d, Any),
           cod_orders |-> Created(d, IsCodGateway) - Returned(d, IsCodGateway),
           prepaid_orders |-> Created(d, IsPrepaidGateway) - Returned(d, IsPrepaidGateway),
           partially_paid_orders |->
               Created(d, IsPartialGateway) - Returned(d, IsPartialGateway),
           overall_cod_orders |-> Created(d, IsCodGateway),
           overall_prepaid_orders |-> Created(d, IsPrepaidGateway),
           overall_partially_paid_orders |-> Created(d, IsPartialGateway) ] : d \in AllDates }

\* update_discount_summary_incremental: the rows inserted for [lo, hi].
DiscountRows(orders, upd, lo, hi) ==
    LET Given(d) == BagSum(orders, [r \in DOMAIN orders |-> r.discount_amount],
                           { r \in DOMAIN orders : r.created_date = d })
        OnReturns(d) == BagSum(upd, [r \in DOMAIN upd |-> r.discount_amount],
                               { r \in DOMAIN upd : r.updated_date = d /\ IsReturnStatus(r) })
        AllDates == { d \in SalesDates(orders) \cup ReturnsDates(upd) : InRange(d, lo, hi) }
    IN { [ date |-> d,
           total_discounts_given |-> Given(d),
           total_discount_on_returns |-> OnReturns(d),
           actual_discounts |-> Given(d) - OnReturns(d) ] : d \in AllDates }

\* COALESCE(t.col, 0) of the row of table t LEFT JOINed on date d.
JoinCol(t, d, col) ==
    IF \E r \in t : r.date = d THEN (CHOOSE r \in t : r.date = d)[col] ELSE 0

\* The factor 0.84 of gross_sales, in percent.
GrossPercent == 84

\* overall_sale * 0.84 stored as DECIMAL(12,2): rounded to the cent.
GrossOf(overall_sale) == (overall_sale * GrossPercent + 50) \div 100

\* update_gross_summary_incremental: the rows inserted for [lo, hi]; reads
\* the discount_summary table as it stands.
GrossRows(orders, discount_summary, lo, hi) ==
    LET Sale(d) == BagSum(orders,
                          [r \in DOMAIN orders |-> r.line_item_quantity * r.line_item_price],
                          { r \in DOMAIN orders : r.created_date = d })
        Dates == { d \in SalesDates(orders) : InRange(d, lo, hi) }
    IN { [ date |-> d,
           overall_sale |-> Sale(d),
           discounts_total |-> JoinCol(discount_summary, d, "total_discounts_given"),
           gross_sales |-> GrossOf(Sale(d)),
           actual_discounts |-> JoinCol(discount_summary, d, "actual_discounts"),
           net_sales |-> GrossOf(Sale(d)) - JoinCol(discount_summary, d, "actual_discounts") ]
         : d \in Dates }

\* update_hour_wise_sales_incremental: the rows inserted for [lo, hi]; reads
\* hourly_sessions_summary (a function from <<date, hour>> to sessions).
HourRows(orders, hourly, lo, hi) ==
    LET Keys == { <<r.created_date, r.created_hour>> :
                    r \in { x \in DOMAIN orders : InRange(x.created_date, lo, hi) } }
        At(k) == { r \in DOMAIN orders : r.created_date = k[1] /\ r.created_hour = k[2] }
    IN { [ date |-> k[1],
           hour |-> k[2],
           number_of_orders |-> CountDistinctIds(At(k)),
           total_sales |-> BagSum(orders, [r \in DOMAIN orders |-> r.total_price], At(k)),
           number_of_prepaid_orders |->
               CountDistinctIds({ r \in At(k) :
                                    r.payment_gateway_names \notin {"none", "cod"} }),
           number_of_cod_orders |->
               CountDistinctIds({ r \in At(k) : r.payment_gateway_names = "cod" }),
           number_of_sessions |-> DictGet(hourly, k, 0) ] : k \in Keys }

\* update_overall_summary_incremental: the rows inserted for [lo, hi]; reads
\* the five tables as they stand.
OverallRows(sales_summary, order_summary, sessions, gross_summary, discount_summary, lo, hi) ==
    { [ date |-> s.date,
        gross_sales |-> JoinCol(gross_summary, s.date, "gross_sales"),
        total_discount_amount |-> JoinCol(discount_summary, s.date, "actual_discounts"),
        total_sales |-> s.actual_overall_sales,
        net_sales |-> JoinCol(gross_summary, s.date, "net_sales"),
        total_orders |-> JoinCol(order_summary, s.date, "number_of_orders_created"),
        cod_orders |-> JoinCol(order_summary, s.date, "overall_cod_orders"),
        prepaid_orders |-> JoinCol(order_summary, s.date, "overall_prepaid_orders"),
        partially_paid_orders |->
            JoinCol(order_summary, s.date, "overall_partially_paid_orders"),
        total_sessions |-> DictGet(sessions, s.date, 0) ]
      : s \in { x \in sales_summary : InRange(x.date, lo, hi) } }

\* A variant of the DELETE without its WHERE clause.
DeleteRange_NoWhere(t, lo, hi) == {}

\* A variant of the DELETE that clears only the last day of the range.
DeleteRange_OnlyMax(t, lo, hi) == { r \in t : r.date # hi }

\* DELETE FROM t WHERE date BETWEEN lo AND hi
DeleteRange(t, lo, hi) == { r \in t : ~InRange(r.date, lo, hi) }

\* A variant of the order of the steps with gross_summary recomputed
\* before discount_summary.
SummaryTables_GrossFirst ==
    << "sales_summary", "order_summary", "gross_summary",
       "discount_summary", "hour_wise_sales", "overall_summary" >>

\* A variant of the order of the steps with overall_summary recomputed
\* first, from the five tables as the previous recomputation left them.
SummaryTables_OverallFirst ==
    << "overall_summary", "sales_summary", "order_summary",
       "discount_summary", "gross_summary", "hour_wise_sales" >>

\* Lines 1317-1322: the order of the six steps.
SummaryTables ==
    << "sales_summary", "order_summary", "discount_summary",
       "gross_summary", "hour_wise_sales", "overall_summary" >>

\* The rows the INSERT of table name produces, from the stored data and
\* the summary tables sm as they stand.
InsertRowsOf(name, sm, orders, upd, facts, hourly, sessions, lo, hi) ==
    CASE name = "sales_summary" -> SalesRows(orders, upd, facts, lo, hi)
      [] name = "order_summary" -> OrderRows(orders, upd, lo, hi)
      [] name = "discount_summary" -> DiscountRows(orders, upd, lo, hi)
      [] name = "gross_summary" -> GrossRows(orders, sm.discount_summary, lo, hi)
      [] name = "hour_wise_sales" -> HourRows(orders, hourly, lo, hi)
      [] name = "overall_summary" ->
            OverallRows(sm.sales_summary, sm.order_summary, sessions,
                        sm.gross_summary, sm.discount_summary, lo, hi)

RECURSIVE RecomputeFrom(_, _, _, _, _, _, _, _, _)
\* Tables i..6 deleted and reinserted in order for [lo, hi].
RecomputeFrom(i, sm, orders, upd, facts, hourly, sessions, lo, hi) ==
    IF i > Len(SummaryTables) THEN sm
    ELSE LET name == SummaryTables[i]
             cleared == [sm EXCEPT ![name] = DeleteRange(sm[name], lo, hi)]
             rows == InsertRowsOf(name, cleared, orders, upd, facts, hourly, sessions, lo, hi)
             filled == [cleared EXCEPT ![name] = cleared[name] \cup rows]
         IN RecomputeFrom(i + 1, filled, orders, upd, facts, hourly, sessions, lo, hi)

EmptySummary == [n \in { SummaryTables[i] : i \in 1..Len(SummaryTables) } |-> {}]

(***************************************************************************)
(* Affected date range: get_affected_date_range.                           *)
(***************************************************************************)
RECURSIVE RefundDatesOf(_)
RefundDatesOf(refunds) ==
    IF refunds = <<>> THEN {}
    ELSE {_parse_iso_to_ist_date(Head(refunds).created_at)} \cup RefundDatesOf(Tail(refunds))

\* Every date one snapshot implies: created, updated, cancelled, refunds.
DatesOfOrder(o) ==
    {_parse_iso_to_ist_date(o.created_at), _parse_iso_to_ist_date(o.updated_at)}
    \cup (IF o.cancelled_at # <<>> THEN {_parse_iso_to_ist_date(o.cancelled_at[1])} ELSE {})
    \cup RefundDatesOf(o.refunds)

\* A variant of the range that reads only the created-at timestamps.
get_affected_date_range_CreatedOnly(orders_list) ==
    LET dates == { _parse_iso_to_ist_date(orders_list[i].created_at)
                     : i \in 1..Len(orders_list) }
    IN IF dates = {} THEN <<>> ELSE <<SetMin(dates), SetMax(dates)>>

\* (None, None) is the empty sequence, (min, max) a pair.
get_affected_date_range(orders_list) ==
    LET dates == UNION { DatesOfOrder(orders_list[i]) : i \in 1..Len(orders_list) }
    IN IF dates = {} THEN <<>> ELSE <<SetMin(dates), SetMax(dates)>>

\* A variant of the initial range that starts from the first day.
InitialAffected_FirstDay == <<0, 0>>

\* affected_dates = {'min': None, 'max': None}
InitialAffected == <<>>

\* affected_dates['min'] = min(affected_dates['min'] or min_d, min_d), and max alike.
MergeAffected(affected, range) ==
    IF range = <<>> THEN affected
    ELSE IF affected = <<>> THEN range
    ELSE <<Min2(affected[1], range[1]), Max2(affected[2], range[2])>>

(***************************************************************************)
(* Fetch window and boundary deduplication.                                *)
(***************************************************************************)
process_types ==
    << [type |-> "NEW", date_field |-> "created_at", table |-> "shopify_orders"],
       [type |-> "UPDATED", date_field |-> "updated_at", table |-> "shopify_orders_update"] >>

\* _get_last_order_with_cursor: the greatest stored timestamp of column col
\* (ORDER BY col DESC LIMIT 1); the table is not empty.
LastTs(table, col) == SetMax({ r[col] : r \in DOMAIN table })

\* get_orders_with_same_timestamp: the ids stored with exactly timestamp ts.
get_orders_with_same_timestamp(table, col, ts) ==
    { r.order_id : r \in { x \in DOMAIN table : x[col] = ts } }

\* convert_to_desired_format: a datetime [sec, aware] to the request string.
\* The slice [:22] keeps the whole of a naive datetime's 19 characters, and
\* of an aware one also the "+05" of its %z, before "%2B05:30" is added:
\* stray says whether the string carries that fragment.
convert_to_desired_format(dt) == [sec |-> dt.sec, stray |-> dt.aware]

\* A variant of the window start without the added second.
NextTs_Inclusive(last_ts) == [sec |-> last_ts, aware |-> FALSE]

\* last_ts + timedelta(seconds=1), a naive datetime read from the table.
NextTs(last_ts) == [sec |-> last_ts + 1, aware |-> FALSE]

\* now_ist(): an aware datetime.
NowIst(tick) == [sec |-> tick \div TicksPerSec, aware |-> TRUE]

\* The upstream's reading of a window: a snapshot matches when its filter
\* field lies in [start_date, end_date], bounds included.
InWindow(o, field, start_date, end_date) ==
    /\ o[field] >= start_date.sec * TicksPerSec
    /\ o[field] <= end_date.sec * TicksPerSec

\* A variant of the dedup filter that keeps every snapshot.
FilterDuplicates_None(orders_list, existing_ids) == orders_list

\* [o for o in orders_list if str(o.get('id')) not in existing_ids]
FilterDuplicates(orders_list, existing_ids) ==
    SelectSeq(orders_list, LAMBDA o : o.id \notin existing_ids)

RECURSIVE SetToSeq(_)
\* The snapshots of one page, in the order the upstream lists them.
SetToSeq(S) ==
    IF S = {} THEN <<>>
    ELSE LET x == CHOOSE y \in S : \A z \in S : y.id >= z.id
         IN <<x>> \o SetToSeq(S \ {x})

(***************************************************************************)
(* Session counters: update_sessions_summary.                              *)
(***************************************************************************)
TicksPerHour == TicksPerSec * SecsPerHour

\* A datetime with microseconds written to a DATETIME column is rounded to
\* the nearest second by the store.
RoundToSec(tick) == (2 * tick + TicksPerSec) \div (2 * TicksPerSec)

\* The hour slots of the window, as absolute hour numbers: one per hour from
\* start_time_ist while before end_time_ist, and the hour of end_time_ist.
TimeSlots(start_tick, end_tick) ==
    { (start_tick + k * TicksPerHour) \div TicksPerHour :
        k \in { j \in 0..(end_tick \div TicksPerHour + 1) :
                  start_tick + j * TicksPerHour < end_tick } }
    \cup { end_tick \div TicksPerHour }

SlotDate(slot) == slot \div HoursPerDay
SlotHour(slot) == slot % HoursPerDay

RECURSIVE SessionsFold_OldestFirst(_, _, _, _)
\* A variant of the loop that takes the slots from the oldest to the newest.
SessionsFold_OldestFirst(hourly, slots, next_hour_cum_sess, cum) ==
    IF slots = {} THEN hourly
    ELSE LET slot_start == SetMin(slots)
             cum_sess == cum[slot_start]
             sessions_this_hour == Max2(0, cum_sess - next_hour_cum_sess)
             key == <<SlotDate(slot_start), SlotHour(slot_start)>>
         IN SessionsFold_OldestFirst(DictPut(hourly, key, sessions_this_hour),
                                     slots \ {slot_start}, cum_sess, cum)

RECURSIVE SessionsFold(_, _, _, _)
\* The loop over sorted(time_slots, reverse=True): slots is the set still to
\* process, next_hour_cum_sess the cumulative counter of the slot processed
\* before (0 at the start), cum the counter the API answers for each slot.
SessionsFold(hourly, slots, next_hour_cum_sess, cum) ==
    IF slots = {} THEN hourly
    ELSE LET slot_start == SetMax(slots)
             cum_sess == cum[slot_start]
             sessions_this_hour == Max2(0, cum_sess - next_hour_cum_sess)
             key == <<SlotDate(slot_start), SlotHour(slot_start)>>
         IN SessionsFold(DictPut(hourly, key, sessions_this_hour),
                         slots \ {slot_start}, cum_sess, cum)

\* The daily rollup: INSERT ... SELECT date, SUM(number_of_sessions) FROM
\* hourly_sessions_summary WHERE date >= from_date GROUP BY date
\* ON DUPLICATE KEY UPDATE.
RollupDaily(sessions, hourly, from_date) ==
    LET dates == { k[1] : k \in { x \in DOMAIN hourly : x[1] >= from_date } }
        DaySum(d) == LET K == { k \in DOMAIN hourly : k[1] = d }
                     IN SumSet([k \in K |-> hourly[k]], K)
    IN [d \in (DOMAIN sessions) \cup dates |->
            IF d \in dates THEN DaySum(d) ELSE sessions[d]]

\* The session API: the cumulative counter of a slot is the number of
\* sessions from the start of that hour on.
ApiCumulative(hits, slot) ==
    LET S == { h \in DOMAIN hits : h >= slot }
    IN SumSet([h \in S |-> hits[h]], S)

(***************************************************************************)
(* State.                                                                  *)
(***************************************************************************)
VARIABLES
    \* the environment: the upstream clock (ticks), the upstream's orders
    \* (id -> snapshot) and the sessions that took place in each hour
    clock, upstream, traffic,
    \* the tenant's store
    shopify_orders, shopify_orders_update, returns_fact,
    hourly_sessions_summary, sessions_summary, pipeline_metadata, summary,
    \* process_single_brand: position, current feed (index of process_types),
    \* affected_dates, the feed's window, the fetch loop and the feed's batch
    pc, feed, affected_dates, win, remaining, order_list, fetch_end, reqSeq,
    filtered, load_ok,
    \* execute_summary_queries_incremental: the range, the table being
    \* recomputed and the statement (DELETE or INSERT) to run next
    sumRange, sumStep, sumPhase,
    \* bookkeeping: runs started, upstream events so far, whether a step of
    \* the current run failed, and the store as it was when the current run,
    \* feed and recomputation began
    runs, events, faults, run_errors, pre,
    \* the reconciler applied to a batch repeatedly; upserted is the rows
    \* list the last call handed to executemany
    batch, applied, factsOnce, upserted,
    \* the BACKFILL_* variables of the process environment, read once when
    \* the module is loaded
    env,
    \* update_sessions_summary taken step by step: its position, its window,
    \* the slots left, the counter of the slot before and the upserts not yet
    \* committed
    sess,
    \* the registries of initialize_brand_configs: the active tenants and the
    \* queue of free connections of each tenant's connector pool; the
    \* connections of a pool that something other than a run has checked out
    active_brand_indices, db_connection_pools, borrowed,
    \* the scheduler and run_data_pipeline: the number of firings so far and,
    \* for each firing, the job's state, the state of each tenant's future,
    \* what the as_completed loop logged for it, and the tenant's run of
    \* process_single_brand
    fired, job, futures, collected, brand

envVars == <<clock, upstream, traffic>>
orderVars == <<shopify_orders, shopify_orders_update, returns_fact>>
sessionVars == <<hourly_sessions_summary, sessions_summary, pipeline_metadata>>
feedVars == <<win, remaining, order_list, fetch_end, reqSeq, filtered, load_ok>>
sumVars == <<sumRange, sumStep, sumPhase>>
reconVars == <<batch, applied, factsOnce, upserted>>
jobVars == <<active_brand_indices, db_connection_pools, borrowed, fired, job, futures,
             collected, brand>>
vars == <<clock, upstream, traffic, shopify_orders, shopify_orders_update, returns_fact,
          hourly_sessions_summary, sessions_summary, pipeline_metadata, summary,
          pc, feed, affected_dates, win, remaining, order_list, fetch_end, reqSeq,
          filtered, load_ok, sumRange, sumStep, sumPhase, runs, events, faults,
          run_errors, pre, batch, applied, factsOnce, upserted, env, sess,
          active_brand_indices, db_connection_pools, borrowed, fired, job, futures,
          collected, brand>>

\* What run_data_pipeline and the scheduler leave alone.
tenantVars == <<clock, upstream, traffic, shopify_orders, shopify_orders_update,
                returns_fact, hourly_sessions_summary, sessions_summary,
                pipeline_metadata, summary, pc, feed, affected_dates, win, remaining,
                order_list, fetch_end, reqSeq, filtered, load_ok, sumRange, sumStep,
                sumPhase, runs, events, faults, run_errors, pre, batch, applied,
                factsOnce, upserted, env, sess>>

MaxDate == DateOfSec(MaxClock \div TicksPerSec)

(***************************************************************************)
(* Backfill configuration, lines 90-116.  A variable of the environment is *)
(* unset (<<>>) or set to a text (<<text>>).  The text of BACKFILL_MODE is *)
(* a string; the text of a BACKFILL_*_IST is [fmt, v]: fmt = "date" for    *)
(* "YYYY-MM-DD" of day v, "datetime" for "YYYY-MM-DDTHH:MM:SS" of second   *)
(* v, "empty" for the empty string and "bad" for any other text.           *)
(***************************************************************************)
\* os.environ.get(name, default)
EnvGet(val, default) == IF val = <<>> THEN default ELSE val[1]

\* .strip().lower() on the texts of BACKFILL_MODE the model draws
StripLower(text) == IF text = " True " THEN "true" ELSE text

\* None is <<>>, a datetime dt is <<dt>>; the result carries tzinfo=IST.
_parse_backfill_dt(val) ==
    IF val = <<>> \/ val[1].fmt = "empty" THEN <<>>
    ELSE IF val[1].fmt = "datetime" THEN <<[sec |-> val[1].v, aware |-> TRUE]>>
    ELSE IF val[1].fmt = "date" THEN <<[sec |-> val[1].v * SecsPerDay, aware |-> TRUE]>>
    ELSE <<>>

BACKFILL_START_IST == _parse_backfill_dt(env.BACKFILL_START_IST)
BACKFILL_END_IST == _parse_backfill_dt(env.BACKFILL_END_IST)

\* A variant of the validation that accepts a window with start >= end.
BACKFILL_MODE_AllowInverted ==
    /\ StripLower(EnvGet(env.BACKFILL_MODE, "false")) = "true"
    /\ BACKFILL_START_IST # <<>> /\ BACKFILL_END_IST # <<>>

\* Lines 104-116: the mode after the validation of the window.
BACKFILL_MODE ==
    /\ StripLower(EnvGet(env.BACKFILL_MODE, "false")) = "true"
    /\ BACKFILL_START_IST # <<>> /\ BACKFILL_END_IST # <<>>
    /\ BACKFILL_START_IST[1].sec < BACKFILL_END_IST[1].sec

NoBackfillEnv ==
    [BACKFILL_MODE |-> <<>>, BACKFILL_START_IST |-> <<>>, BACKFILL_END_IST |-> <<>>]

\* update_sessions_summary not running.
NoSess ==
    [pc |-> "idle", start_time_ist |-> 0, end_time_ist |-> 0, time_slots |-> {},
     next_hour_cum_sess |-> 0, pending |-> EmptyDict, fetched |-> {},
     committed |-> FALSE, failed |-> FALSE, before |-> <<>>, calls |-> 0]

Execs == 1..MaxExecs
Brands == 1..MaxBrands

\* The scheduler has not fired and no tenant is configured.
JobIdle ==
    /\ active_brand_indices = {} /\ db_connection_pools = EmptyDict
    /\ borrowed = [i \in Brands |-> <<>>]
    /\ fired = 0
    /\ job = [e \in Execs |-> "idle"]
    /\ futures = [e \in Execs |-> EmptyDict]
    /\ collected = [e \in Execs |-> EmptyDict]
    /\ brand = [e \in Execs |-> EmptyDict]
MaxHour == MaxClock \div TicksPerHour

\* Every summary table recomputed for all dates from the stored data.
FullRecompute(orders, upd, facts, hourly, sessions) ==
    RecomputeFrom(1, EmptySummary, orders, upd, facts, hourly, sessions, 0, MaxDate)

\* The summary tables agree with a recomputation of all dates.
Consistent ==
    summary = FullRecompute(shopify_orders, shopify_orders_update, returns_fact,
                            hourly_sessions_summary, sessions_summary)

TableOf(i) == IF process_types[i].table = "shopify_orders"
              THEN shopify_orders ELSE shopify_orders_update

\* The high-water-mark of a feed: the latest timestamp stored in its table.
HighWaterMark(i) == LastTs(TableOf(i), process_types[i].date_field)

(***************************************************************************)
(* Initial state: the store after an initial load of one order, with the   *)
(* summaries computed from it.                                             *)
(***************************************************************************)
SeedOrder ==
    [ id |-> 1, created_at |-> 0, updated_at |-> 0, cancelled_at |-> <<>>,
      total_price |-> Num(1), financial_status |-> "paid", app |-> "GoKwik",
      discount |-> 0, gateway |-> "prepaid", refunds |-> <<>> ]

NoWindow == [start_date |-> [sec |-> 0, stray |-> FALSE],
             end_date |-> [sec |-> 0, stray |-> FALSE],
             existing_ids |-> {}, last_ts |-> 0]
NoPre == [consistent |-> TRUE, table |-> EmptyBag, facts |-> {}, matching |-> {},
          summary |-> EmptySummary, processed |-> {}, fetched |-> FALSE,
          steps |-> <<>>, final_range |-> <<>>, failed_range |-> <<>>, owed |-> <<>>]

RunIdle ==
    /\ pc = "idle" /\ feed = 1 /\ affected_dates = <<>>
    /\ win = NoWindow /\ remaining = {} /\ order_list = <<>> /\ fetch_end = "none"
    /\ reqSeq = 0 /\ filtered = <<>> /\ load_ok = TRUE
    /\ sumRange = <<>> /\ sumStep = 1 /\ sumPhase = "delete"
    /\ runs = 0 /\ events = 0 /\ faults = 0 /\ run_errors = FALSE /\ pre = NoPre

ReconIdle == batch = <<>> /\ applied = 0 /\ factsOnce = {} /\ upserted = {}

\* The store holding the seed order and the fact rows facts.
SeedStore(facts) ==
    /\ traffic = [h \in 0..MaxHour |-> 0]
    /\ shopify_orders = BagAdd(EmptyBag, TransformOrder(SeedOrder))
    /\ shopify_orders_update = BagAdd(EmptyBag, TransformOrder(SeedOrder))
    /\ returns_fact = facts
    /\ hourly_sessions_summary = EmptyDict
    /\ sessions_summary = EmptyDict
    /\ pipeline_metadata = [last_session_fetch_timestamp |-> <<0>>,
                            last_pipeline_completion_time |-> <<>>]
    /\ summary = FullRecompute(BagAdd(EmptyBag, TransformOrder(SeedOrder)),
                               BagAdd(EmptyBag, TransformOrder(SeedOrder)),
                               facts, EmptyDict, EmptyDict)

Init ==
    /\ clock = 0
    /\ upstream = [i \in {SeedOrder.id} |-> SeedOrder]
    /\ SeedStore({})
    /\ RunIdle
    /\ ReconIdle
    /\ env = NoBackfillEnv
    /\ sess = NoSess
    /\ JobIdle

(***************************************************************************)
(* The environment, between runs: time passes, orders are created,         *)
(* cancelled and refunded upstream, sessions take place.                   *)
(***************************************************************************)
NextDayStart == (_parse_iso_to_ist_date(clock) + 1) * SecsPerDay * TicksPerSec

Tick ==
    /\ pc = "idle" /\ runs < MaxRuns
    /\ \E t \in {clock + 1, NextDayStart} :
        /\ t <= MaxClock
        /\ clock' = t
    /\ UNCHANGED <<upstream, traffic, orderVars, sessionVars, summary, pc, feed,
                   affected_dates, feedVars, sumVars, runs, events, faults, run_errors, pre, reconVars, env, sess, jobVars>>

\* A new upstream order: its price and channel follow from its id.
NewOrder(id, tick) ==
    [ id |-> id, created_at |-> tick, updated_at |-> tick, cancelled_at |-> <<>>,
      total_price |-> Num(id), financial_status |-> "paid",
      app |-> IF id % 2 = 0 THEN "HYPD_store" ELSE "GoKwik",
      discount |-> 1, gateway |-> "cod", refunds |-> <<>> ]

CreateOrder ==
    /\ pc = "idle" /\ runs < MaxRuns /\ events < MaxEvents
    /\ \E id \in 1..MaxOrderId :
        /\ id \notin DOMAIN upstream
        /\ \A j \in 1..MaxOrderId : j < id => j \in DOMAIN upstream
        /\ upstream' = DictPut(upstream, id, NewOrder(id, clock))
    /\ events' = events + 1
    /\ UNCHANGED <<clock, traffic, orderVars, sessionVars, summary, pc, feed,
                   affected_dates, feedVars, sumVars, runs, faults, run_errors, pre, reconVars, env, sess, jobVars>>

CancelOrder ==
    /\ pc = "idle" /\ runs < MaxRuns /\ events < MaxEvents
    /\ \E id \in DOMAIN upstream :
        /\ upstream[id].cancelled_at = <<>>
        /\ upstream' = [upstream EXCEPT ![id].cancelled_at = <<clock>>,
                                        ![id].updated_at = clock,
                                        ![id].financial_status = "voided"]
    /\ events' = events + 1
    /\ UNCHANGED <<clock, traffic, orderVars, sessionVars, summary, pc, feed,
                   affected_dates, feedVars, sumVars, runs, faults, run_errors, pre, reconVars, env, sess, jobVars>>

RefundOrder ==
    /\ pc = "idle" /\ runs < MaxRuns /\ events < MaxEvents
    /\ \E id \in DOMAIN upstream, amt \in {1} :
        /\ Len(upstream[id].refunds) < MaxRefunds
        /\ upstream' = [upstream EXCEPT
              ![id].refunds = Append(@, [created_at |-> clock,
                                         transactions |-> <<[kind |-> "refund",
                                                             amount |-> Num(amt)]>>]),
              ![id].updated_at = clock,
              ![id].financial_status = "refunded"]
    /\ events' = events + 1
    /\ UNCHANGED <<clock, traffic, orderVars, sessionVars, summary, pc, feed,
                   affected_dates, feedVars, sumVars, runs, faults, run_errors, pre, reconVars, env, sess, jobVars>>

Visit ==
    /\ pc = "idle" /\ runs < MaxRuns /\ events < MaxEvents
    /\ traffic[clock \div TicksPerHour] < MaxVisits
    /\ traffic' = [traffic EXCEPT ![clock \div TicksPerHour] = @ + 1]
    /\ events' = events + 1
    /\ UNCHANGED <<clock, upstream, orderVars, sessionVars, summary, pc, feed,
                   affected_dates, feedVars, sumVars, runs, faults, run_errors, pre, reconVars, env, sess, jobVars>>

(***************************************************************************)
(* process_single_brand, step by step.  pre.steps is the log of the steps  *)
(* the current run has taken; pre.owed is the range of dates whose         *)
(* recomputation failed in the previous run.                               *)
(***************************************************************************)
\* A variant of the loop body that reconciles before it writes the rows.
FeedSteps_ReconcileFirst == <<"reconcile", "load">>

\* Lines 1559-1566: a batch is transformed and loaded, then reconciled.
FeedSteps == <<"load", "reconcile">>

\* The position after step s of the loop body: the next step, or the end
\* of the iteration.
StepAfter(s) ==
    LET i == CHOOSE k \in 1..Len(FeedSteps) : FeedSteps[k] = s
    IN IF i < Len(FeedSteps) THEN FeedSteps[i + 1] ELSE "next"

Logged(p, step) == [p EXCEPT !.steps = Append(@, step)]

StartRun ==
    /\ pc = "idle" /\ runs < MaxRuns
    /\ pc' = "sessions"
    /\ runs' = runs + 1
    /\ run_errors' = FALSE
    /\ pre' = [pre EXCEPT !.consistent = Consistent, !.summary = summary]
    /\ UNCHANGED <<envVars, orderVars, sessionVars, summary, feed, affected_dates,
                   feedVars, sumVars, events, faults, reconVars, env, sess, jobVars>>

\* get_last_fetch_timestamp: the stored checkpoint, or an hour before now.
SessionStartTick ==
    IF pipeline_metadata.last_session_fetch_timestamp # <<>>
    THEN pipeline_metadata.last_session_fetch_timestamp[1] * TicksPerSec
    ELSE clock - TicksPerHour

\* update_sessions_summary returning normally: every slot answered.
SessionsRefreshed ==
    LET start_tick == SessionStartTick
        slots == TimeSlots(start_tick, clock)
        cum == [sl \in slots |-> ApiCumulative(traffic, sl)]
        hourly == SessionsFold(hourly_sessions_summary, slots, 0, cum)
    IN IF start_tick >= clock
       THEN UNCHANGED sessionVars
       ELSE /\ hourly_sessions_summary' = hourly
            /\ sessions_summary' =
                 RollupDaily(sessions_summary, hourly, DateOfSec(start_tick \div TicksPerSec))
            /\ pipeline_metadata' =
                 [pipeline_metadata EXCEPT !.last_session_fetch_timestamp = <<RoundToSec(clock)>>]

UpdateSessions ==
    /\ pc = "sessions"
    /\ \/ SessionsRefreshed /\ UNCHANGED <<run_errors, faults>>
       \* a session API call or a statement failed: caught and logged, the
       \* uncommitted upserts are dropped with the connection
       \/ /\ SessionStartTick < clock
          /\ faults < MaxFaults
          /\ faults' = faults + 1
          /\ UNCHANGED sessionVars
          /\ run_errors' = TRUE
    /\ pc' = "feed"
    /\ feed' = 1
    /\ affected_dates' = InitialAffected
    /\ pre' = Logged(pre, "sessions")
    /\ UNCHANGED <<envVars, orderVars, summary, feedVars, sumVars, runs, events, reconVars, env, sess, jobVars>>

\* The upstream snapshots a request for the window lists, over all pages.
UpstreamMatches(field, start_date, end_date) ==
    { upstream[i] : i \in { j \in DOMAIN upstream :
                              InWindow(upstream[j], field, start_date, end_date) } }

\* Lines 1523-1534: the window after the last stored timestamp of column
\* col up to now, and the ids stored with exactly that timestamp.
WindowOf(table, col, tick) ==
    LET last_ts == LastTs(table, col)
    IN [start_date |-> convert_to_desired_format(NextTs(last_ts)),
        end_date |-> convert_to_desired_format(NowIst(tick)),
        existing_ids |-> get_orders_with_same_timestamp(table, col, last_ts),
        last_ts |-> last_ts]

\* A variant that uses the configured window for a feed without stored
\* data also when the mode is off.
FeedMode_BackfillWhenEmpty(table) ==
    IF BACKFILL_MODE THEN "backfill"
    ELSE IF DOMAIN table = {}
         THEN IF BACKFILL_START_IST # <<>> /\ BACKFILL_END_IST # <<>>
              THEN "backfill" ELSE "skip"
         ELSE "incremental"

\* Lines 1509-1522: the branch a feed takes; get_last_order returns None
\* for a table without rows.
FeedMode(table) ==
    IF BACKFILL_MODE THEN "backfill"
    ELSE IF DOMAIN table = {} THEN "skip"
    ELSE "incremental"

\* A variant of the backfill branch that filters the ids already stored.
BackfillWindow_Deduped ==
    [start_date |-> convert_to_desired_format(BACKFILL_START_IST[1]),
     end_date |-> convert_to_desired_format(BACKFILL_END_IST[1]),
     existing_ids |-> { r.order_id : r \in DOMAIN shopify_orders \cup DOMAIN shopify_orders_update },
     last_ts |-> 0]

\* Lines 1510-1517: the configured window, and existing_ids = set().
BackfillWindow ==
    [start_date |-> convert_to_desired_format(BACKFILL_START_IST[1]),
     end_date |-> convert_to_desired_format(BACKFILL_END_IST[1]),
     existing_ids |-> {},
     last_ts |-> 0]

\* Lines 1506-1538: the feed is skipped without stored data; otherwise its
\* window is computed, or taken from the backfill configuration, and the
\* fetch begins.
FeedWindow ==
    /\ pc = "feed"
    /\ LET p == process_types[feed]
           table == TableOf(feed)
           mode == FeedMode(table)
       IN IF mode = "skip"
          THEN /\ pc' = "next"
               /\ pre' = [Logged(pre, p.type) EXCEPT !.table = table, !.facts = returns_fact]
               /\ UNCHANGED feedVars
          ELSE LET w == IF mode = "backfill" THEN BackfillWindow
                        ELSE WindowOf(table, p.date_field, clock)
               IN /\ win' = w
                  /\ remaining' = UpstreamMatches(p.date_field, w.start_date, w.end_date)
                  /\ order_list' = <<>>
                  /\ fetch_end' = "none"
                  /\ reqSeq' = 0
                  /\ pre' = [pre EXCEPT
                        !.table = table, !.facts = returns_fact,
                        !.matching = UpstreamMatches(p.date_field, w.start_date, w.end_date),
                        !.steps = Append(Append(@, p.type), "fetch")]
                  /\ pc' = "fetch"
                  /\ UNCHANGED <<filtered, load_ok>>
    /\ UNCHANGED <<envVars, orderVars, sessionVars, summary, feed, affected_dates,
                   sumVars, runs, events, faults, run_errors, reconVars, env, sess, jobVars>>

\* A variant of the page loop that keeps only the last page.
ExtendList_Replace(list, orders) == orders

\* order_list.extend(orders)
ExtendList(list, orders) == list \o orders

\* One iteration of the loop of fetch_orders_async answered 200.
FetchPage ==
    /\ pc = "fetch"
    /\ IF remaining = {}
       THEN \* data.get('orders') is empty: break
            /\ fetch_end' = "complete"
            /\ pc' = "fetched"
            /\ UNCHANGED <<remaining, order_list>>
       ELSE \E page \in SUBSET remaining :
            /\ Cardinality(page) = Min2(PageSize, Cardinality(remaining))
            /\ order_list' = ExtendList(order_list, SetToSeq(page))
            /\ remaining' = remaining \ page
            /\ IF remaining \ page = {}
               THEN \* no rel="next" link: url = None ends the loop
                    fetch_end' = "complete" /\ pc' = "fetched"
               ELSE UNCHANGED <<fetch_end, pc>>
    /\ UNCHANGED <<envVars, orderVars, sessionVars, summary, feed, affected_dates, win, reqSeq,
                   filtered, load_ok, sumVars, runs, events, faults, run_errors, pre, reconVars, env, sess, jobVars>>

\* The request answered 429: sleep Retry-After and repeat the same request.
\* reqSeq counts the rate-limit responses of the fetch, modulo SeqMod.
FetchRateLimited ==
    /\ pc = "fetch"
    /\ reqSeq' = (reqSeq + 1) % SeqMod
    /\ UNCHANGED <<envVars, orderVars, sessionVars, summary, pc, feed, affected_dates, win,
                   remaining, order_list, fetch_end, filtered, load_ok, sumVars, runs,
                   events, faults, run_errors, pre, reconVars, env, sess, jobVars>>

\* The request answered another non-200 status, timed out or raised: break,
\* and what was collected so far is returned.
FetchFail ==
    /\ pc = "fetch"
    /\ faults < MaxFaults
    /\ faults' = faults + 1
    /\ fetch_end' = "error"
    /\ pc' = "fetched"
    /\ run_errors' = TRUE
    /\ UNCHANGED <<envVars, orderVars, sessionVars, summary, feed, affected_dates, win,
                   reqSeq, remaining, order_list, filtered, load_ok, sumVars, runs, events, pre,
                   reconVars, env, sess, jobVars>>

\* Lines 1540-1557: nothing fetched, dedup filter, affected range.
FeedFilter ==
    /\ pc = "fetched"
    /\ LET kept == IF win.existing_ids # {}
                   THEN FilterDuplicates(order_list, win.existing_ids)
                   ELSE order_list
       IN IF order_list = <<>> \/ kept = <<>>
          THEN pc' = "next" /\ UNCHANGED <<filtered, affected_dates>>
          ELSE /\ filtered' = kept
               /\ affected_dates' = MergeAffected(affected_dates, get_affected_date_range(kept))
               /\ pc' = FeedSteps[1]
    \* bookkeeping: whether a fetch of the run returned a snapshot, and the
    \* snapshots of the run that passed the filter
    /\ pre' = [pre EXCEPT
          !.fetched = @ \/ order_list # <<>>,
          !.processed = @ \cup (IF win.existing_ids # {}
                                THEN { o \in { order_list[i] : i \in 1..Len(order_list) } :
                                         o.id \notin win.existing_ids }
                                ELSE { order_list[i] : i \in 1..Len(order_list) })]
    /\ UNCHANGED <<envVars, orderVars, sessionVars, summary, feed, win, remaining,
                   order_list, fetch_end, reqSeq, load_ok, sumVars, runs, events, faults,
                   run_errors, reconVars, env, sess, jobVars>>

\* Lines 1559-1563: transform and load_data_to_sql_optimized.
FeedLoad ==
    /\ pc = "load"
    /\ \/ /\ load_ok' = TRUE
          /\ IF process_types[feed].table = "shopify_orders"
             THEN /\ shopify_orders' =
                       BagAddAll(shopify_orders, transform_orders_to_df_optimized(filtered))
                  /\ UNCHANGED shopify_orders_update
             ELSE /\ shopify_orders_update' =
                       BagAddAll(shopify_orders_update,
                                 transform_orders_to_df_optimized(filtered))
                  /\ UNCHANGED shopify_orders
          /\ pre' = Logged(pre, "write")
          /\ UNCHANGED <<run_errors, faults>>
       \* the insert failed: logged inside load_data_to_sql_optimized, not raised
       \/ /\ faults < MaxFaults
          /\ faults' = faults + 1
          /\ load_ok' = FALSE
          /\ run_errors' = TRUE
          /\ pre' = Logged(pre, "write_failed")
          /\ UNCHANGED <<shopify_orders, shopify_orders_update>>
    /\ pc' = StepAfter("load")
    /\ UNCHANGED <<envVars, returns_fact, sessionVars, summary, feed, affected_dates, win,
                   remaining, order_list, fetch_end, reqSeq, filtered, sumVars, runs,
                   events, reconVars, env, sess, jobVars>>

\* Line 1566: upsert_returns_fact_from_orders on the same filtered snapshots.
FeedReconcile ==
    /\ pc = "reconcile"
    /\ returns_fact' = upsert_returns_fact_from_orders(returns_fact, filtered)
    /\ pc' = StepAfter("reconcile")
    /\ pre' = Logged(pre, "reconcile")
    /\ UNCHANGED <<envVars, shopify_orders, shopify_orders_update, sessionVars, summary,
                   feed, affected_dates, feedVars, sumVars, runs, events, faults, run_errors,
                   reconVars, env, sess, jobVars>>

\* Lines 569-616: a statement of the reconciler raised.  The function has
\* no except clause and the loop of process_single_brand no try: the
\* exception leaves process_single_brand, the uncommitted upsert is dropped
\* with the connection, and nothing after the loop body is executed.
FeedReconcileRaises ==
    /\ pc = "reconcile"
    /\ faults < MaxFaults
    /\ faults' = faults + 1
    /\ run_errors' = TRUE
    /\ pc' = "end"
    /\ pre' = Logged(pre, "raised")
    /\ UNCHANGED <<envVars, orderVars, sessionVars, summary, feed, affected_dates, feedVars,
                   sumVars, runs, events, reconVars, env, sess, jobVars>>

\* The end of the loop body: the next process type, or leave the loop.
NextFeed ==
    /\ pc = "next"
    /\ IF feed < Len(process_types)
       THEN feed' = feed + 1 /\ pc' = "feed" /\ UNCHANGED pre
       ELSE /\ feed' = feed /\ pc' = "completion"
            /\ pre' = [Logged(pre, "feeds_done") EXCEPT !.final_range = affected_dates]
    /\ win' = NoWindow /\ remaining' = {} /\ order_list' = <<>> /\ fetch_end' = "none"
    /\ reqSeq' = 0 /\ filtered' = <<>> /\ load_ok' = TRUE
    /\ UNCHANGED <<envVars, orderVars, sessionVars, summary, affected_dates, sumVars,
                   runs, events, faults, run_errors, reconVars, env, sess, jobVars>>

\* Lines 1568-1584: the completion timestamp is recorded, then the
\* summaries are recomputed if a date was affected.
RecordCompletion ==
    /\ pc = "completion"
    /\ pipeline_metadata' =
         [pipeline_metadata EXCEPT !.last_pipeline_completion_time = <<RoundToSec(clock)>>]
    /\ IF affected_dates # <<>>
       THEN /\ pc' = "summary"
            /\ sumRange' = affected_dates
            /\ sumStep' = 1
            /\ sumPhase' = "delete"
            /\ pre' = [Logged(pre, "completion") EXCEPT !.summary = summary]
       ELSE /\ pc' = "end"
            /\ pre' = Logged(pre, "completion")
            /\ UNCHANGED sumVars
    /\ UNCHANGED <<envVars, orderVars, hourly_sessions_summary, sessions_summary, summary,
                   feed, affected_dates, feedVars, runs, events, faults, run_errors, reconVars, env, sess, jobVars>>

(***************************************************************************)
(* execute_summary_queries_incremental, statement by statement: the        *)
(* session runs with autocommit=1, so each DELETE and each INSERT is       *)
(* committed on its own.                                                   *)
(***************************************************************************)
SummaryDelete ==
    /\ pc = "summary" /\ sumPhase = "delete"
    /\ summary' = [summary EXCEPT ![SummaryTables[sumStep]] =
                      DeleteRange(@, sumRange[1], sumRange[2])]
    /\ sumPhase' = "insert"
    /\ pre' = IF sumStep = 1 THEN Logged(pre, "summary_begin") ELSE pre
    /\ UNCHANGED <<envVars, orderVars, sessionVars, pc, feed, affected_dates, feedVars,
                   sumRange, sumStep, runs, events, faults, run_errors, reconVars, env, sess, jobVars>>

SummaryInsert ==
    /\ pc = "summary" /\ sumPhase = "insert"
    /\ summary' = [summary EXCEPT ![SummaryTables[sumStep]] =
                      @ \cup InsertRowsOf(SummaryTables[sumStep], summary, shopify_orders,
                                          shopify_orders_update, returns_fact,
                                          hourly_sessions_summary, sessions_summary,
                                          sumRange[1], sumRange[2])]
    /\ IF sumStep = Len(SummaryTables)
       THEN /\ pc' = "end" /\ UNCHANGED <<sumStep, sumPhase>>
            /\ pre' = Logged(pre, "summary_end")
       ELSE pc' = pc /\ sumStep' = sumStep + 1 /\ sumPhase' = "delete" /\ UNCHANGED pre
    /\ UNCHANGED <<envVars, orderVars, sessionVars, feed, affected_dates, feedVars,
                   sumRange, runs, events, faults, run_errors, reconVars, env, sess, jobVars>>

\* A statement raised: caught and logged by execute_summary_queries_incremental.
SummaryFail ==
    /\ pc = "summary"
    /\ faults < MaxFaults
    /\ faults' = faults + 1
    /\ pc' = "end"
    /\ run_errors' = TRUE
    /\ pre' = [Logged(pre, "summary_failed") EXCEPT !.failed_range = sumRange]
    /\ UNCHANGED <<envVars, orderVars, sessionVars, summary, feed, affected_dates,
                   feedVars, sumVars, runs, events, reconVars, env, sess, jobVars>>

EndRun ==
    /\ pc = "end"
    /\ pc' = "idle"
    /\ feed' = 1
    /\ affected_dates' = <<>>
    /\ sumRange' = <<>> /\ sumStep' = 1 /\ sumPhase' = "delete"
    /\ run_errors' = FALSE
    /\ pre' = [NoPre EXCEPT !.owed = pre.failed_range]
    /\ win' = NoWindow /\ remaining' = {} /\ order_list' = <<>> /\ fetch_end' = "none"
    /\ reqSeq' = 0 /\ filtered' = <<>> /\ load_ok' = TRUE
    /\ UNCHANGED <<envVars, orderVars, sessionVars, summary, runs, events, faults,
                   reconVars, env, sess, jobVars>>

Next ==
    \/ Tick \/ CreateOrder \/ CancelOrder \/ RefundOrder \/ Visit
    \/ StartRun \/ UpdateSessions \/ FeedWindow
    \/ FetchPage \/ FetchRateLimited \/ FetchFail
    \/ FeedFilter \/ FeedLoad \/ FeedReconcile \/ FeedReconcileRaises \/ NextFeed
    \/ RecordCompletion \/ SummaryDelete \/ SummaryInsert \/ SummaryFail \/ EndRun

Spec == Init /\ [][Next]_vars

(***************************************************************************)
(* fetch_orders on its own: one fetch of a feed's window, begun at any     *)
(* time of the clock with any of the upstream histories below.  The event  *)
(* loop that runs fetch_orders_async always takes the coroutine's next     *)
(* step, whence the weak fairness of FairSpecFetch.                        *)
(***************************************************************************)
\* Upstream histories: the seed order, refunded or not, and later orders.
FetchUpstreams(now) ==
    { [id \in 1..n |->
          IF id = SeedOrder.id
          THEN IF r = 0 THEN SeedOrder
               ELSE [SeedOrder EXCEPT
                        !.updated_at = r, !.financial_status = "refunded",
                        !.refunds = <<[created_at |-> r,
                                       transactions |-> <<[kind |-> "refund",
                                                           amount |-> Num(1)]>>]>>]
          ELSE NewOrder(id, t)]
      : n \in 1..MaxOrderId, r \in 0..now, t \in 0..now }

InitFetch ==
    /\ clock \in 0..MaxClock
    /\ upstream \in FetchUpstreams(clock)
    /\ SeedStore({})
    /\ feed \in 1..Len(process_types)
    /\ win = WindowOf(TableOf(feed), process_types[feed].date_field, clock)
    /\ remaining = UpstreamMatches(process_types[feed].date_field,
                                   win.start_date, win.end_date)
    /\ pre = [NoPre EXCEPT !.table = TableOf(feed), !.matching = remaining]
    /\ pc = "fetch" /\ affected_dates = <<>>
    /\ order_list = <<>> /\ fetch_end = "none" /\ reqSeq = 0
    /\ filtered = <<>> /\ load_ok = TRUE
    /\ sumRange = <<>> /\ sumStep = 1 /\ sumPhase = "delete"
    /\ runs = 1 /\ events = 0 /\ faults = 0 /\ run_errors = FALSE
    /\ ReconIdle
    /\ env = NoBackfillEnv
    /\ sess = NoSess
    /\ JobIdle

NextFetch == FetchPage \/ FetchRateLimited \/ FetchFail

SpecFetch == InitFetch /\ [][NextFetch]_vars

FairSpecFetch == SpecFetch /\ WF_vars(NextFetch)

(***************************************************************************)
(* The reconciler on its own: upsert_returns_fact_from_orders applied      *)
(* repeatedly to one batch of snapshots, from a store that may already     *)
(* hold rows under the keys of the batch.                                  *)
(***************************************************************************)
DayTicks == SecsPerDay * TicksPerSec

ReconRefunds ==
    LET T(k, a) == [kind |-> k, amount |-> a]
        R(at, txns) == [created_at |-> at, transactions |-> txns]
    IN { <<>>,
         <<R(0, <<T("refund", Num(0 - 1)), T("sale", Num(MaxPrice))>>)>>,
         <<R(0, <<T("return", BadMoney), T("chargeback", Num(1))>>)>>,
         <<R(0, <<T("refund", Num(1))>>), R(0, <<T("refund", Num(0 - MaxPrice))>>)>>,
         <<R(0, <<T("refund", Num(1))>>), R(DayTicks, <<T("refund", Num(MaxPrice))>>)>>,
         <<R(0, <<T("sale", Num(1))>>)>> }

\* cancelled_at and total_price: not cancelled, cancelled, and cancelled
\* with a total price float() rejects.
ReconCancels ==
    { [at |-> <<>>, price |-> Num(MaxPrice)],
      [at |-> <<DayTicks>>, price |-> Num(MaxPrice)],
      [at |-> <<0>>, price |-> BadMoney] }

ReconSnapshots ==
    { [ id |-> i, created_at |-> 0, updated_at |-> 0, cancelled_at |-> c.at,
        total_price |-> c.price, financial_status |-> "paid", app |-> "GoKwik",
        discount |-> 0, gateway |-> "prepaid", refunds |-> rf ]
      : i \in 0..MaxOrderId, rf \in ReconRefunds, c \in ReconCancels }

ReconBatches == UNION { [1..n -> ReconSnapshots] : n \in 0..MaxBatch }

ReconStores ==
    { {},
      { [order_id |-> 1, event_type |-> "REFUND", event_date |-> 0, amount |-> MaxPrice + 1],
        [order_id |-> 1, event_type |-> "CANCEL", event_date |-> 1, amount |-> MaxPrice + 1] } }

InitReconcile ==
    /\ clock = 0
    /\ upstream = [i \in {SeedOrder.id} |-> SeedOrder]
    /\ returns_fact \in ReconStores
    /\ SeedStore(returns_fact)
    /\ RunIdle
    /\ batch \in ReconBatches
    /\ applied = 0
    /\ factsOnce = {}
    /\ upserted = {}
    /\ env = NoBackfillEnv
    /\ sess = NoSess
    /\ JobIdle

\* One call of upsert_returns_fact_from_orders(batch) that returns.
ApplyReconciler ==
    /\ applied < MaxApply
    /\ ~ReconcileRaises(batch)
    /\ returns_fact' = upsert_returns_fact_from_orders(returns_fact, batch)
    /\ applied' = applied + 1
    /\ factsOnce' = IF applied = 0 THEN returns_fact' ELSE factsOnce
    /\ upserted' = FactRows(AggOrders(EmptyDict, batch))
    /\ UNCHANGED <<envVars, shopify_orders, shopify_orders_update, sessionVars, summary,
                   pc, feed, affected_dates, feedVars, sumVars, runs, events, faults,
                   run_errors, pre, batch, env, sess, jobVars>>

\* One call that raises while building agg: no statement is executed.
ReconcilerRaises ==
    /\ applied < MaxApply
    /\ ReconcileRaises(batch)
    /\ applied' = applied + 1
    /\ factsOnce' = IF applied = 0 THEN returns_fact ELSE factsOnce
    /\ upserted' = {}
    /\ UNCHANGED <<envVars, orderVars, sessionVars, summary, pc, feed, affected_dates,
                   feedVars, sumVars, runs, events, faults, run_errors, pre, batch, env, sess, jobVars>>

NextReconcile == ApplyReconciler \/ ReconcilerRaises

SpecReconcile == InitReconcile /\ [][NextReconcile]_vars

(***************************************************************************)
(* One run of process_single_brand under every backfill configuration,     *)
(* from a store in which either order table may be without rows, hold the  *)
(* seed order alone, or have caught up with the upstream.                  *)
(***************************************************************************)
BackfillTexts ==
    { <<>>, <<[fmt |-> "empty", v |-> 0]>>, <<[fmt |-> "bad", v |-> 0]>>,
      <<[fmt |-> "date", v |-> 0]>>, <<[fmt |-> "date", v |-> MaxDate]>>,
      <<[fmt |-> "datetime", v |-> 1]>> }

BackfillEnvs ==
    [BACKFILL_MODE : {<<>>, <<"true">>, <<" True ">>, <<"false">>},
     BACKFILL_START_IST : BackfillTexts,
     BACKFILL_END_IST : BackfillTexts]

\* The upstream: the seed order refunded after its creation, and a second
\* order created and cancelled later.
BackfillUpstream ==
    [id \in 1..2 |->
        IF id = SeedOrder.id
        THEN [SeedOrder EXCEPT
                 !.updated_at = TicksPerSec + 1, !.financial_status = "refunded",
                 !.refunds = <<[created_at |-> TicksPerSec + 1,
                                transactions |-> <<[kind |-> "refund",
                                                    amount |-> Num(1)]>>]>>]
        ELSE [NewOrder(id, TicksPerSec) EXCEPT
                 !.cancelled_at = <<MaxClock - 1>>, !.updated_at = MaxClock - 1,
                 !.financial_status = "voided"]]

\* The order tables of a store that has caught up with the upstream: the
\* seed order as first loaded and the second order as created, and the
\* latest snapshot of the second order in the update table.
CaughtUpOrders ==
    BagAdd(BagAdd(EmptyBag, TransformOrder(SeedOrder)),
           TransformOrder(NewOrder(2, TicksPerSec)))
CaughtUpUpdates ==
    BagAdd(BagAdd(EmptyBag, TransformOrder(SeedOrder)),
           TransformOrder(BackfillUpstream[2]))

InitBackfill ==
    /\ clock = MaxClock
    /\ upstream = BackfillUpstream
    /\ traffic = [h \in 0..MaxHour |-> 0]
    /\ shopify_orders \in {EmptyBag, BagAdd(EmptyBag, TransformOrder(SeedOrder)),
                           CaughtUpOrders}
    /\ shopify_orders_update \in {EmptyBag, BagAdd(EmptyBag, TransformOrder(SeedOrder)),
                                  CaughtUpUpdates}
    /\ returns_fact = IF shopify_orders_update = CaughtUpUpdates
                      THEN upsert_returns_fact_from_orders({}, <<BackfillUpstream[2]>>)
                      ELSE {}
    /\ hourly_sessions_summary = EmptyDict
    /\ sessions_summary = EmptyDict
    /\ pipeline_metadata = [last_session_fetch_timestamp |-> <<0>>,
                            last_pipeline_completion_time |-> <<>>]
    /\ summary = FullRecompute(shopify_orders, shopify_orders_update, returns_fact,
                               EmptyDict, EmptyDict)
    /\ pc = "idle" /\ feed = 1 /\ affected_dates = <<>>
    /\ win = NoWindow /\ remaining = {} /\ order_list = <<>> /\ fetch_end = "none"
    /\ reqSeq = 0 /\ filtered = <<>> /\ load_ok = TRUE
    /\ sumRange = <<>> /\ sumStep = 1 /\ sumPhase = "delete"
    /\ runs = MaxRuns - 1 /\ events = MaxEvents /\ faults = 0 /\ run_errors = FALSE
    /\ pre = NoPre
    /\ ReconIdle
    /\ env \in BackfillEnvs
    /\ sess = NoSess
    /\ JobIdle

NextRun ==
    \/ StartRun \/ UpdateSessions \/ FeedWindow
    \/ FetchPage \/ FetchRateLimited \/ FetchFail
    \/ FeedFilter \/ FeedLoad \/ FeedReconcile \/ FeedReconcileRaises \/ NextFeed
    \/ RecordCompletion \/ SummaryDelete \/ SummaryInsert \/ SummaryFail \/ EndRun

SpecBackfill == InitBackfill /\ [][NextRun]_vars

(***************************************************************************)
(* The scheduler, run_data_pipeline and process_single_brand as users of   *)
(* the tenants' connector pools.  The scheduler fires run_data_pipeline;   *)
(* a firing that finds max_instances executions running is not executed.   *)
(* An execution submits process_single_brand for every active tenant to a  *)
(* thread pool that runs at most max_workers of them at a time and keeps   *)
(* what each returned or raised in its future; the as_completed loop takes *)
(* the results.  A tenant's run is the sequence Program of the statements  *)
(* of process_single_brand that take, use or return a connection of the    *)
(* tenant's pool.  Every run is taken to end and the thread pool to run    *)
(* what it can, whence the weak fairness of FairSpecJob.                    *)
(***************************************************************************)
\* Line 191: pool_size=2.
pool_size == 2

\* Line 232: attempts: int = 10.
attempts == 10

\* Line 1639: max_instances=1.
max_instances == 1

\* Lines 188-192: a new pool, all its connections free.
NewPool == [k \in 1..pool_size |-> k]

\* One statement of process_single_brand: what it does to the pool (op),
\* the with-block of get_db_cursor it belongs to (site), the function
\* called (name), whether an exception can leave it (raises), and the
\* statement a continue or a false condition leads to instead of the next
\* one (skip, 0 if none).
Stmt(op, site, name, raises, skip) ==
    [op |-> op, site |-> site, name |-> name, raises |-> raises, skip |-> skip]

\* Lines 1507-1566: the body of the loop over process_types for the feed
\* whose first statement is at position first.  get_last_order and
\* get_orders_with_same_timestamp catch mysql.connector.Error (675-677,
\* 697-699); the loop continues with the next feed when there is no last
\* order (1520-1522) or nothing to insert (1540-1548).  fetch_orders and
\* load_data_to_sql_optimized, between the second and the third statement,
\* use no connection of the pool and let no exception out.
\* upsert_returns_fact_from_orders has no except clause.
FeedBody(first) ==
    << Stmt("helper", "feeds", "get_last_order", FALSE, first + 3),
       Stmt("helper", "feeds", "get_orders_with_same_timestamp", FALSE, first + 3),
       Stmt("helper", "feeds", "upsert_returns_fact_from_orders", TRUE, 0) >>

\* Lines 1462-1586.
Program ==
    << Stmt("guard", "none", "process_single_brand", FALSE, 0),
       Stmt("acquire", "sessions", "get_db_cursor", FALSE, 0),
       Stmt("work", "sessions", "update_sessions_summary", TRUE, 0),
       Stmt("release", "sessions", "get_db_cursor", FALSE, 0),
       Stmt("acquire", "feeds", "get_db_cursor", FALSE, 0) >>
    \o FeedBody(6) \o FeedBody(9) \o
    << Stmt("release", "feeds", "get_db_cursor", FALSE, 0),
       Stmt("acquire", "completion", "get_db_cursor", FALSE, 0),
       Stmt("work", "completion", "record_completion", TRUE, 0),
       Stmt("release", "completion", "get_db_cursor", FALSE, 19),
       Stmt("acquire", "summaries", "get_db_cursor", FALSE, 0),
       Stmt("work", "summaries", "execute_summary_queries_incremental", TRUE, 0),
       Stmt("release", "summaries", "get_db_cursor", FALSE, 0) >>

\* The position after the last statement.
ProgramEnd == Len(Program) + 1

\* Where a statement can lead.
Successors(k) == {k + 1} \cup (IF Program[k].skip = 0 THEN {} ELSE {Program[k].skip})

\* Lines 1358/1454 and 1308/1326: update_sessions_summary and
\* execute_summary_queries_incremental enclose their with-block in
\* try/except Exception and log; lines 1505 and 1570 are inside no try.
Caught(site) == site \in {"sessions", "summaries"}

\* The statement after the with-block of a site.
BlockEnd(site) ==
    1 + CHOOSE k \in 1..Len(Program) : Program[k].op = "release" /\ Program[k].site = site

\* A run that was submitted and has not started.
NotStarted ==
    [pc |-> 0, held |-> <<>>, tries |-> 0, inner |-> FALSE, used |-> {},
     exhausted |-> {}, starts |-> 0]

\* The run after an exception raised in the with-block of a site: the
\* generators of get_db_cursor and get_db_connection have returned what was
\* held; the run goes on after the block if the exception is caught there.
AfterRaise(b, site) ==
    [b EXCEPT !.pc = IF Caught(site) THEN BlockEnd(site) ELSE ProgramEnd,
              !.held = <<>>, !.tries = 0, !.inner = FALSE, !.used = {}]

\* The future of a run after an exception raised in a site.
FutureAfterRaise(f, site) == IF Caught(site) THEN f ELSE "raised"

\* A variant of get_db_connection that makes one attempt more.
Exhausted_OneMore(tries) == tries >= attempts

\* Lines 237-245: the for loop has made its last attempt after tries failed
\* ones and this one.
Exhausted(tries) == tries + 1 >= attempts

\* A variant of process_single_brand without the guard of lines 1463-1465.
HasPool_Always(i) == TRUE

\* Line 1463: brand_index in db_connection_pools.
HasPool(i) == i \in DOMAIN db_connection_pools

\* A variant of the call sites that passes no cursor to the helpers.
CursorPassed_None == FALSE

\* Lines 1509, 1532-1534, 1566: cursor=cursor (and connection=connection).
CursorPassed == TRUE

\* A variant of the pool sized by the number of tenants alone.
max_workers_PerTenant == Cardinality(active_brand_indices)

\* Line 1601
max_workers == Min2(Cardinality(active_brand_indices), Max2(2, CPU_COUNT \div 2))

\* A variant of the pool in which a worker whose task raised is lost.
Busy_RaisedHoldsWorker(e) ==
    { i \in DOMAIN futures[e] : futures[e][i] \in {"running", "raised"} }

\* The tenants whose run occupies a worker of the pool of execution e.
Busy(e) == { i \in DOMAIN futures[e] : futures[e][i] = "running" }

\* A variant of the scheduler without max_instances.
InstanceFree_Always == TRUE

\* Line 1639: fewer than max_instances executions of the job are running.
InstanceFree == Cardinality({ e \in Execs : job[e] = "running" }) < max_instances

\* Lines 167-225: every active tenant has a pool (the index is appended
\* only after pool and engine were created), and every pool is new.
InitJob ==
    /\ clock = 0
    /\ upstream = [i \in {SeedOrder.id} |-> SeedOrder]
    /\ SeedStore({})
    /\ RunIdle
    /\ ReconIdle
    /\ env = NoBackfillEnv
    /\ sess = NoSess
    /\ active_brand_indices \in SUBSET Brands
    /\ db_connection_pools = [i \in active_brand_indices |-> NewPool]
    /\ borrowed = [i \in Brands |-> <<>>]
    /\ fired = 0
    /\ job = [e \in Execs |-> "idle"]
    /\ futures = [e \in Execs |-> EmptyDict]
    /\ collected = [e \in Execs |-> EmptyDict]
    /\ brand = [e \in Execs |-> EmptyDict]

\* process_single_brand called for up to MaxCalls tenant indices, each with
\* or without a pool registered for it.
InitBrandCall ==
    /\ clock = 0
    /\ upstream = [i \in {SeedOrder.id} |-> SeedOrder]
    /\ SeedStore({})
    /\ RunIdle
    /\ ReconIdle
    /\ env = NoBackfillEnv
    /\ sess = NoSess
    /\ active_brand_indices \in SUBSET Brands
    /\ Cardinality(active_brand_indices) <= MaxCalls
    /\ \E withPool \in SUBSET active_brand_indices :
          db_connection_pools = [i \in withPool |-> NewPool]
    /\ borrowed = [i \in Brands |-> <<>>]
    /\ fired = 0
    /\ job = [e \in Execs |-> "idle"]
    /\ futures = [e \in Execs |-> EmptyDict]
    /\ collected = [e \in Execs |-> EmptyDict]
    /\ brand = [e \in Execs |-> EmptyDict]

\* Lines 1632-1643 and 1596-1605: the scheduler fires.  With max_instances
\* executions running the firing is skipped; otherwise run_data_pipeline
\* runs: no active tenant, or every tenant submitted.  The futures of an
\* execution that returned are locals of a call that ended: they are gone
\* when the next execution begins.
JobTriggered ==
    /\ fired < MaxExecs
    /\ fired' = fired + 1
    /\ LET e == fired + 1
       IN IF ~InstanceFree
          THEN /\ job' = [job EXCEPT ![e] = "skipped"]
               /\ UNCHANGED <<futures, collected, brand>>
          ELSE IF active_brand_indices = {}
          THEN /\ job' = [job EXCEPT ![e] = "returned"]
               /\ UNCHANGED <<futures, collected, brand>>
          ELSE /\ job' = [job EXCEPT ![e] = "running"]
               /\ futures' = [x \in Execs |->
                                IF x = e THEN [i \in active_brand_indices |-> "pending"]
                                ELSE IF job[x] = "returned" THEN EmptyDict ELSE futures[x]]
               /\ collected' = [x \in Execs |->
                                  IF x = e THEN [i \in active_brand_indices |-> "none"]
                                  ELSE IF job[x] = "returned" THEN EmptyDict
                                  ELSE collected[x]]
               /\ brand' = [x \in Execs |->
                              IF x = e THEN [i \in active_brand_indices |-> NotStarted]
                              ELSE IF job[x] = "returned" THEN EmptyDict ELSE brand[x]]
    /\ UNCHANGED <<tenantVars, active_brand_indices, db_connection_pools, borrowed>>

\* A free worker takes a submitted run.
BrandStarts ==
    \E e \in Execs :
        /\ job[e] = "running"
        /\ Cardinality(Busy(e)) < max_workers
        /\ \E i \in DOMAIN futures[e] :
            /\ futures[e][i] = "pending"
            /\ futures' = [futures EXCEPT ![e][i] = "running"]
            /\ brand' = [brand EXCEPT ![e][i].pc = 1, ![e][i].starts = @ + 1]
        /\ UNCHANGED <<tenantVars, active_brand_indices, db_connection_pools, borrowed,
                       fired, job, collected>>

\* Lines 1463-1465: without a pool the function logs and returns.
BrandGuard ==
    \E e \in Execs : \E i \in DOMAIN futures[e] :
        /\ futures[e][i] = "running"
        /\ brand[e][i].pc < ProgramEnd
        /\ Program[brand[e][i].pc].op = "guard"
        /\ brand' = [brand EXCEPT ![e][i].pc = IF HasPool(i) THEN @ + 1 ELSE ProgramEnd]
        /\ UNCHANGED <<tenantVars, active_brand_indices, db_connection_pools, borrowed,
                       fired, job, futures, collected>>

\* Lines 232-246: one attempt of get_db_connection.  No pool: ValueError.
\* A free connection: taken, the body of the with-block follows.  None:
\* PoolError, and the loop sleeps and tries again, or after its last
\* attempt raises.
BrandAcquires ==
    \E e \in Execs : \E i \in DOMAIN futures[e] :
        LET b == brand[e][i]
            site == Program[b.pc].site
        IN /\ futures[e][i] = "running"
           /\ b.pc < ProgramEnd
           /\ Program[b.pc].op = "acquire"
           /\ IF i \notin DOMAIN db_connection_pools
              THEN /\ brand' = [brand EXCEPT ![e][i] = AfterRaise(b, site)]
                   /\ futures' = [futures EXCEPT ![e][i] = FutureAfterRaise(@, site)]
                   /\ UNCHANGED db_connection_pools
              ELSE IF db_connection_pools[i] # <<>>
              THEN /\ brand' = [brand EXCEPT ![e][i].held = <<Head(db_connection_pools[i])>>,
                                             ![e][i].tries = 0,
                                             ![e][i].pc = @ + 1]
                   /\ db_connection_pools' = [db_connection_pools EXCEPT ![i] = Tail(@)]
                   /\ UNCHANGED futures
              ELSE IF Exhausted(b.tries)
              THEN /\ brand' = [brand EXCEPT
                                  ![e][i] = [AfterRaise(b, site) EXCEPT
                                                !.exhausted = @ \cup {site}]]
                   /\ futures' = [futures EXCEPT ![e][i] = FutureAfterRaise(@, site)]
                   /\ UNCHANGED db_connection_pools
              ELSE /\ brand' = [brand EXCEPT ![e][i].tries = @ + 1]
                   /\ UNCHANGED <<futures, db_connection_pools>>
           /\ UNCHANGED <<tenantVars, active_brand_indices, borrowed, fired, job, collected>>

\* A statement inside a with-block.  Given the cursor, a helper uses the
\* connection of the block.  Given none, get_last_order and
\* get_orders_with_same_timestamp open a with-block of their own (669-672,
\* 692-694), whose PoolError they catch, and upsert_returns_fact_from_orders
\* calls next() on a context manager (566), a TypeError.
BrandWorks ==
    \E e \in Execs : \E i \in DOMAIN futures[e] :
        LET b == brand[e][i]
            st == Program[b.pc]
            pool == db_connection_pools[i]
        IN /\ futures[e][i] = "running"
           /\ b.pc < ProgramEnd
           /\ st.op \in {"work", "helper"}
           /\ IF st.op = "helper" /\ ~CursorPassed
              THEN IF st.name = "upsert_returns_fact_from_orders"
                   THEN /\ brand' = [brand EXCEPT ![e][i] = AfterRaise(b, st.site)]
                        /\ futures' = [futures EXCEPT ![e][i] = FutureAfterRaise(@, st.site)]
                        /\ db_connection_pools' =
                             [db_connection_pools EXCEPT ![i] = @ \o b.held]
                   ELSE IF b.inner
                   THEN /\ \E next \in Successors(b.pc) :
                             brand' = [brand EXCEPT ![e][i].held = <<b.held[1]>>,
                                                    ![e][i].inner = FALSE,
                                                    ![e][i].used = @ \cup {b.held[2]},
                                                    ![e][i].pc = next]
                        /\ db_connection_pools' =
                             [db_connection_pools EXCEPT ![i] = Append(@, b.held[2])]
                        /\ UNCHANGED futures
                   ELSE IF pool # <<>>
                   THEN /\ brand' = [brand EXCEPT ![e][i].held = Append(@, Head(pool)),
                                                  ![e][i].inner = TRUE,
                                                  ![e][i].tries = 0]
                        /\ db_connection_pools' = [db_connection_pools EXCEPT ![i] = Tail(@)]
                        /\ UNCHANGED futures
                   ELSE IF Exhausted(b.tries)
                   THEN /\ \E next \in Successors(b.pc) :
                             brand' = [brand EXCEPT ![e][i].tries = 0,
                                                    ![e][i].exhausted = @ \cup {st.name},
                                                    ![e][i].pc = next]
                        /\ UNCHANGED <<futures, db_connection_pools>>
                   ELSE /\ brand' = [brand EXCEPT ![e][i].tries = @ + 1]
                        /\ UNCHANGED <<futures, db_connection_pools>>
              ELSE /\ \E next \in Successors(b.pc) :
                        brand' = [brand EXCEPT
                                    ![e][i].used = IF st.op = "helper"
                                                   THEN @ \cup {b.held[1]} ELSE @,
                                    ![e][i].pc = next]
                   /\ UNCHANGED <<futures, db_connection_pools>>
           /\ UNCHANGED <<tenantVars, active_brand_indices, borrowed, fired, job, collected>>

\* Lines 247-253 and 261-266: the with-block is left and cnx.close()
\* returns the connection to the pool.
BrandReleases ==
    \E e \in Execs : \E i \in DOMAIN futures[e] :
        LET b == brand[e][i]
        IN /\ futures[e][i] = "running"
           /\ b.pc < ProgramEnd
           /\ Program[b.pc].op = "release"
           /\ \E next \in Successors(b.pc) :
                brand' = [brand EXCEPT ![e][i].held = <<>>, ![e][i].used = {},
                                       ![e][i].pc = next]
           /\ db_connection_pools' = [db_connection_pools EXCEPT ![i] = @ \o b.held]
           /\ UNCHANGED <<tenantVars, active_brand_indices, borrowed, fired, job, futures,
                          collected>>

\* A statement inside a with-block raises: the finally clauses return the
\* connection; the exception is caught and logged where the block is
\* enclosed in try/except, and leaves process_single_brand where it is
\* not, the thread pool storing it in the future.
BrandRaises ==
    \E e \in Execs : \E i \in DOMAIN futures[e] :
        LET b == brand[e][i]
            st == Program[b.pc]
        IN /\ futures[e][i] = "running"
           /\ b.pc < ProgramEnd
           /\ st.op \in {"work", "helper"} /\ st.raises
           /\ brand' = [brand EXCEPT ![e][i] = AfterRaise(b, st.site)]
           /\ futures' = [futures EXCEPT ![e][i] = FutureAfterRaise(@, st.site)]
           /\ db_connection_pools' = [db_connection_pools EXCEPT ![i] = @ \o b.held]
           /\ UNCHANGED <<tenantVars, active_brand_indices, borrowed, fired, job, collected>>

\* process_single_brand returns.
BrandReturns ==
    \E e \in Execs : \E i \in DOMAIN futures[e] :
        /\ futures[e][i] = "running"
        /\ brand[e][i].pc = ProgramEnd
        /\ futures' = [futures EXCEPT ![e][i] = "returned"]
        /\ UNCHANGED <<tenantVars, active_brand_indices, db_connection_pools, borrowed,
                       fired, job, collected, brand>>

\* Lines 1606-1614: as_completed yields a finished future; fut.result()
\* returns, or re-raises what the run raised and the except clause logs it.
CollectResult ==
    \E e \in Execs : \E i \in DOMAIN futures[e] :
        /\ job[e] = "running"
        /\ futures[e][i] \in {"returned", "raised"}
        /\ collected[e][i] = "none"
        /\ collected' = [collected EXCEPT
                            ![e][i] = IF futures[e][i] = "raised" THEN "failed" ELSE "ok"]
        /\ UNCHANGED <<tenantVars, active_brand_indices, db_connection_pools, borrowed,
                       fired, job, futures, brand>>

\* Lines 1604-1619: every future was yielded, the executor was shut down
\* with all its tasks ended, and the function returns.
JobReturns ==
    \E e \in Execs :
        /\ job[e] = "running"
        /\ \A i \in DOMAIN futures[e] : collected[e][i] # "none"
        /\ job' = [job EXCEPT ![e] = "returned"]
        /\ UNCHANGED <<tenantVars, active_brand_indices, db_connection_pools, borrowed,
                       fired, futures, collected, brand>>

\* Something other than a run checks out what is free in a tenant's pool.
OtherTakes ==
    \E i \in DOMAIN db_connection_pools :
        /\ faults < MaxFaults
        /\ faults' = faults + 1
        /\ db_connection_pools[i] # <<>>
        /\ borrowed' = [borrowed EXCEPT ![i] = @ \o db_connection_pools[i]]
        /\ db_connection_pools' = [db_connection_pools EXCEPT ![i] = <<>>]
        /\ UNCHANGED <<envVars, orderVars, sessionVars, summary, pc, feed, affected_dates,
                       feedVars, sumVars, runs, events, run_errors, pre, reconVars, env,
                       sess, active_brand_indices, fired, job, futures, collected, brand>>

\* It returns them.
OtherReturns ==
    \E i \in DOMAIN db_connection_pools :
        /\ borrowed[i] # <<>>
        /\ db_connection_pools' = [db_connection_pools EXCEPT ![i] = @ \o borrowed[i]]
        /\ borrowed' = [borrowed EXCEPT ![i] = <<>>]
        /\ UNCHANGED <<tenantVars, active_brand_indices, fired, job, futures, collected,
                       brand>>

NextJob ==
    \/ JobTriggered \/ BrandStarts \/ BrandGuard \/ BrandAcquires \/ BrandWorks
    \/ BrandReleases \/ BrandRaises \/ BrandReturns \/ CollectResult \/ JobReturns

SpecJob == InitJob /\ [][NextJob]_vars

FairSpecJob == SpecJob /\ WF_vars(NextJob)

NextBrandCall == NextJob \/ OtherTakes \/ OtherReturns

SpecBrandCall == InitBrandCall /\ [][NextBrandCall]_vars

(***************************************************************************)
(* update_sessions_summary on its own, statement by statement, while time  *)
(* passes and sessions take place: the window is computed once, the slots  *)
(* are fetched one by one, the upserts stay uncommitted until the rollup   *)
(* is committed, and the checkpoint is written last.  Any statement or API *)
(* call may fail; the except clause of line 1454 ends the call.            *)
(***************************************************************************)
InitSessions ==
    /\ clock = 0
    /\ upstream = [i \in {SeedOrder.id} |-> SeedOrder]
    /\ traffic = [h \in 0..MaxHour |-> 0]
    /\ shopify_orders = BagAdd(EmptyBag, TransformOrder(SeedOrder))
    /\ shopify_orders_update = BagAdd(EmptyBag, TransformOrder(SeedOrder))
    /\ returns_fact = {}
    /\ hourly_sessions_summary = EmptyDict
    /\ sessions_summary = EmptyDict
    /\ pipeline_metadata \in [last_session_fetch_timestamp : {<<>>, <<0>>},
                              last_pipeline_completion_time : {<<>>}]
    /\ summary = FullRecompute(shopify_orders, shopify_orders_update, {},
                               EmptyDict, EmptyDict)
    /\ RunIdle
    /\ ReconIdle
    /\ env = NoBackfillEnv
    /\ sess = NoSess
    /\ JobIdle

SessTick ==
    /\ clock < MaxClock
    /\ clock' = clock + 1
    /\ UNCHANGED <<upstream, traffic, orderVars, sessionVars, summary, pc, feed,
                   affected_dates, feedVars, sumVars, runs, events, faults, run_errors, pre,
                   reconVars, env, sess, jobVars>>

SessVisit ==
    /\ events < MaxEvents
    /\ traffic[clock \div TicksPerHour] < MaxVisits
    /\ traffic' = [traffic EXCEPT ![clock \div TicksPerHour] = @ + 1]
    /\ events' = events + 1
    /\ UNCHANGED <<clock, upstream, orderVars, sessionVars, summary, pc, feed,
                   affected_dates, feedVars, sumVars, runs, faults, run_errors, pre,
                   reconVars, env, sess, jobVars>>

\* Lines 1385-1397: the window from the checkpoint to now, and its slots;
\* no window, no refresh.
SessBegin ==
    /\ sess.pc = "idle" /\ sess.calls < MaxRuns
    /\ LET start_time_ist == SessionStartTick
           end_time_ist == clock
       IN sess' = [sess EXCEPT
             !.calls = @ + 1,
             !.before = pipeline_metadata.last_session_fetch_timestamp,
             !.start_time_ist = start_time_ist,
             !.end_time_ist = end_time_ist,
             !.pc = IF start_time_ist >= end_time_ist THEN "done" ELSE "slots",
             !.time_slots = IF start_time_ist >= end_time_ist THEN {}
                            ELSE TimeSlots(start_time_ist, end_time_ist),
             !.next_hour_cum_sess = 0,
             !.pending = hourly_sessions_summary]
    /\ UNCHANGED <<envVars, orderVars, sessionVars, summary, pc, feed,
                   affected_dates, feedVars, sumVars, runs, events, faults, run_errors, pre,
                   reconVars, env, jobVars>>

\* Lines 1403-1428: the newest slot left is asked for and answered 200; its
\* upsert is executed, not committed.
SessSlot ==
    /\ sess.pc = "slots"
    /\ LET slot_start == SetMax(sess.time_slots)
           cum_sess == ApiCumulative(traffic, slot_start)
           sessions_this_hour == Max2(0, cum_sess - sess.next_hour_cum_sess)
       IN sess' = [sess EXCEPT
             !.pending = DictPut(@, <<SlotDate(slot_start), SlotHour(slot_start)>>,
                                 sessions_this_hour),
             !.next_hour_cum_sess = cum_sess,
             !.time_slots = @ \ {slot_start},
             !.fetched = @ \cup {slot_start},
             !.pc = IF sess.time_slots = {slot_start} THEN "rollup" ELSE "slots"]
    /\ UNCHANGED <<envVars, orderVars, sessionVars, summary, pc, feed,
                   affected_dates, feedVars, sumVars, runs, events, faults, run_errors, pre,
                   reconVars, env, jobVars>>

\* A variant of the failure handling that goes on to the checkpoint, as a
\* finally clause would.
SessAfterFailure_Checkpoint(s) == [s EXCEPT !.pc = "checkpoint", !.failed = TRUE]

\* Lines 1429-1431 and 1454-1456: the exception leaves the with block, the
\* connection goes back to its pool and what was not committed is dropped;
\* the except clause logs, and the function returns.
SessAfterFailure(s) == [s EXCEPT !.pc = "done", !.failed = TRUE, !.pending = EmptyDict]

\* A slot is answered with another status than 200, or a statement raises.
SessFails ==
    /\ sess.pc \in {"slots", "rollup", "checkpoint"}
    /\ faults < MaxFaults
    /\ faults' = faults + 1
    /\ sess' = SessAfterFailure(sess)
    /\ UNCHANGED <<envVars, orderVars, sessionVars, summary, pc, feed,
                   affected_dates, feedVars, sumVars, runs, events, run_errors, pre,
                   reconVars, env, jobVars>>

\* Lines 1433-1449: the daily rollup from the first date of the window, and
\* the commit of the hourly upserts and of the rollup.
SessRollup ==
    /\ sess.pc = "rollup"
    /\ hourly_sessions_summary' = sess.pending
    /\ sessions_summary' =
         RollupDaily(sessions_summary, sess.pending,
                     DateOfSec(sess.start_time_ist \div TicksPerSec))
    /\ sess' = [sess EXCEPT !.pc = "checkpoint", !.committed = TRUE]
    /\ UNCHANGED <<envVars, orderVars, pipeline_metadata, summary, pc, feed,
                   affected_dates, feedVars, sumVars, runs, events, faults, run_errors, pre,
                   reconVars, env, jobVars>>

\* Line 1451: update_last_fetch_timestamp(cursor, connection, end_time_ist).
SessCheckpoint ==
    /\ sess.pc = "checkpoint"
    /\ pipeline_metadata' =
         [pipeline_metadata EXCEPT
             !.last_session_fetch_timestamp = <<RoundToSec(sess.end_time_ist)>>]
    /\ sess' = [sess EXCEPT !.pc = "done"]
    /\ UNCHANGED <<envVars, orderVars, hourly_sessions_summary, sessions_summary, summary,
                   pc, feed, affected_dates, feedVars, sumVars, runs, events, faults,
                   run_errors, pre, reconVars, env, jobVars>>

\* The function has returned; the next run calls it again.
SessReturn ==
    /\ sess.pc = "done"
    /\ sess' = [NoSess EXCEPT !.calls = sess.calls]
    /\ UNCHANGED <<envVars, orderVars, sessionVars, summary, pc, feed,
                   affected_dates, feedVars, sumVars, runs, events, faults, run_errors, pre,
                   reconVars, env, jobVars>>

NextSessions ==
    \/ SessTick \/ SessVisit \/ SessBegin \/ SessSlot \/ SessFails
    \/ SessRollup \/ SessCheckpoint \/ SessReturn

SpecSessions == InitSessions /\ [][NextSessions]_vars

(***************************************************************************)
(* Properties.                                                             *)
(***************************************************************************)

\* C1: if the summary tables agreed with a full recomputation when a run
\* began, then after a run in which no step failed they agree with a full
\* recomputation of all dates from the data then stored.
C1_IncrementalEqualsFull ==
    (pc = "end" /\ pre.consistent /\ ~run_errors) => Consistent

\* The rows of summary table t keyed by a date outside the range recomputed.
OutsideRange(t) == { r \in t : ~InRange(r.date, sumRange[1], sumRange[2]) }

\* C2: during and after execute_summary_queries_incremental(min_date,
\* max_date), every one of the six summary tables holds, for the dates
\* outside [min_date, max_date], exactly the rows it held before.
C2_OutsideRangeUntouched ==
    (pc \in {"summary", "end"} /\ sumRange # <<>>) =>
        \A n \in DOMAIN summary : OutsideRange(summary[n]) = OutsideRange(pre.summary[n])

\* A recomputation ran to its end, changed the tables and left alone the
\* rows of a date before the range.
C2_Witness ==
    /\ pc = "end" /\ sumRange # <<>> /\ ~run_errors
    /\ summary # pre.summary
    /\ \E n \in DOMAIN summary : \E r \in summary[n] : r.date < sumRange[1]

\* SUM(amount) over the stored REFUND facts of date d.
FactRefundSum(d) ==
    LET S == { f \in returns_fact : f.event_type = "REFUND" /\ f.event_date = d }
    IN SumSet([f \in S |-> f.amount], S)

\* C3: once update_sales_summary_incremental has run, for every date d of
\* the range the overall_returns of the sales_summary row of d is the sum
\* of the REFUND facts of d (and there is no row only if that sum is 0).
C3_OverallReturnsFromFacts ==
    (pc \in {"summary", "end"} /\ sumRange # <<>> /\ sumStep > 1) =>
        \A d \in sumRange[1]..sumRange[2] :
            LET rows == { r \in summary.sales_summary : r.date = d }
            IN IF rows = {} THEN FactRefundSum(d) = 0
               ELSE \A r \in rows : r.overall_returns = FactRefundSum(d)

\* A date of the range has refunds, and the orders marked returned on it
\* are worth a different amount.
C3_Witness ==
    /\ pc = "summary" /\ sumStep > 1
    /\ \E r \in summary.sales_summary :
        /\ InRange(r.date, sumRange[1], sumRange[2])
        /\ r.overall_returns > 0
        /\ r.overall_returns # r.gokwik_returns + r.hypd_store_returns

\* C4: the window of a feed with a checkpoint starts one second after the
\* feed's high-water-mark, hence strictly after it, and ends at the
\* current second.
C4_WindowAfterHighWaterMark ==
    pc = "fetch" =>
        /\ win.start_date.sec = HighWaterMark(feed) + 1
        /\ win.start_date.sec > HighWaterMark(feed)
        /\ win.end_date.sec = clock \div TicksPerSec

\* A later run, whose feed's high-water-mark an earlier run advanced.
C4_Witness ==
    /\ pc = "fetch" /\ runs > 1
    /\ HighWaterMark(feed) > 0
    /\ win.end_date.sec >= win.start_date.sec

\* C5: a feed whose fetch stopped early or whose write failed leaves the
\* feed's high-water-mark where it was when the window was computed.
C5_HighWaterMarkNeedsFullCommit ==
    (pc \in {"reconcile", "next"} /\ (fetch_end = "error" \/ ~load_ok)) =>
        HighWaterMark(feed) = win.last_ts

\* C6: a fetch that ends without an error returns every upstream snapshot
\* of the window, each exactly once, whatever 429 responses came between.
C6_FetchComplete ==
    (pc = "fetched" /\ fetch_end = "complete") =>
        /\ { order_list[i] : i \in 1..Len(order_list) } = pre.matching
        /\ Len(order_list) = Cardinality(pre.matching)

\* A fetch of several pages with a rate-limit response among the answers.
C6_Witness ==
    /\ pc = "fetched" /\ fetch_end = "complete"
    /\ Len(order_list) > PageSize
    /\ reqSeq # 0

\* C7: after a page request of the feed's fetch failed, the feed writes no
\* row to its order table and no fact to returns_fact.
C7_FailedFetchWritesNothing ==
    (pc \in {"load", "reconcile", "next"} /\ fetch_end = "error") =>
        /\ TableOf(feed) = pre.table
        /\ returns_fact = pre.facts

\* C8: every fetch comes to an end.
C8_FetchTerminates == <>(pc = "fetched")

C10_ReconcilerIdempotent ==
    applied >= 2 => returns_fact = factsOnce

\* Two applications of a batch of several snapshots that wrote both a
\* REFUND and a CANCEL fact.
C10_Witness ==
    /\ applied = 2 /\ Len(batch) > 1 /\ ~ReconcileRaises(batch)
    /\ \E f, g \in returns_fact :
        /\ f.event_type = "REFUND" /\ f.amount <= MaxPrice
        /\ g.event_type = "CANCEL" /\ g.amount <= MaxPrice

\* C11: the fact store never holds two rows with the same
\* (order_id, event_type, event_date).
C11_OneFactPerKey ==
    \A f, g \in returns_fact :
        (/\ f.order_id = g.order_id
         /\ f.event_type = g.event_type
         /\ f.event_date = g.event_date) => f = g

\* A batch cancelled an order whose CANCEL fact of that day was already
\* stored with another amount, next to a stored fact it did not derive.
C11_Witness ==
    /\ applied >= 1
    /\ \E r \in upserted :
        /\ r.order_id = 1 /\ r.event_type = "CANCEL" /\ r.event_date = 1
        /\ r.amount # MaxPrice + 1
    /\ \E g \in returns_fact : g.event_type = "REFUND" /\ g.amount = MaxPrice + 1

\* C12: after a batch was reconciled, the stored amount under the identity
\* of every fact it derived is the batch's amount alone.
C12_UpsertReplaces ==
    applied >= 1 =>
        \A r \in upserted :
            \A f \in returns_fact :
                (/\ f.order_id = r.order_id
                 /\ f.event_type = r.event_type
                 /\ f.event_date = r.event_date) => f.amount = r.amount

\* The batch derived a smaller refund for an entity and day whose refund
\* was stored by an earlier batch; a fact of the earlier batch that the
\* later one did not derive is still stored.
C12_Witness ==
    /\ applied = 1
    /\ \E r \in upserted :
        /\ r.order_id = 1 /\ r.event_type = "REFUND" /\ r.event_date = 0
        /\ r.amount < MaxPrice + 1
        /\ r \in returns_fact
    /\ \E g \in returns_fact : g.event_type = "CANCEL" /\ g.amount = MaxPrice + 1

\* The calendar date of an upstream timestamp.
CalendarDate(tick) == (tick \div TicksPerSec) \div SecsPerDay

\* The snapshots of the batch that have an id no other snapshot of the
\* batch has.
SoleSnapshots ==
    { i \in 1..Len(batch) :
        /\ batch[i].id # 0
        /\ \A j \in 1..Len(batch) : batch[j].id = batch[i].id => j = i }

\* No total price of the batch is malformed.
PricesWellFormed == \A i \in 1..Len(batch) : batch[i].total_price.st # "bad"

\* The facts of one type the last call derived for order oid.
DerivedFacts(type, oid) ==
    { r \in upserted : r.order_id = oid /\ r.event_type = type }

\* C13: a snapshot with a cancellation timestamp yields exactly one CANCEL
\* fact, dated the cancellation's calendar date, of the snapshot's total
\* price; a snapshot without one yields no CANCEL fact.
C13_CancelFact ==
    (applied >= 1 /\ PricesWellFormed) =>
        \A i \in SoleSnapshots :
            LET o == batch[i]
            IN /\ DerivedFacts("CANCEL", o.id) =
                    IF o.cancelled_at = <<>> THEN {}
                    ELSE { [order_id |-> o.id, event_type |-> "CANCEL",
                            event_date |-> CalendarDate(o.cancelled_at[1]),
                            amount |-> o.total_price.v] }
               /\ DerivedFacts("CANCEL", o.id) \subseteq returns_fact

\* A batch with a cancelled and a not cancelled snapshot was reconciled.
C13_Witness ==
    /\ applied >= 1 /\ PricesWellFormed
    /\ \E i, j \in SoleSnapshots :
        /\ batch[i].cancelled_at # <<>> /\ CalendarDate(batch[i].cancelled_at[1]) > 0
        /\ batch[j].cancelled_at = <<>>
        /\ DerivedFacts("CANCEL", batch[i].id) # {}

\* abs(amount) of a transaction of kind refund, chargeback or return with a
\* well-formed amount, 0 for any other transaction.
TxnMagnitude(t) ==
    IF t.kind \in {"refund", "chargeback", "return"} /\ t.amount.st = "num"
    THEN (IF t.amount.v < 0 THEN 0 - t.amount.v ELSE t.amount.v)
    ELSE 0

\* The sum of the magnitudes of the transactions of the refund sub-records
\* of snapshot o created on day d.
DayRefund(o, d) ==
    LET I == { i \in 1..Len(o.refunds) : CalendarDate(o.refunds[i].created_at) = d }
        Of(i) == LET txns == o.refunds[i].transactions
                     J == 1..Len(txns)
                 IN SumSet([j \in J |-> TxnMagnitude(txns[j])], J)
    IN SumSet([i \in I |-> Of(i)], I)

RefundDays(o) == { CalendarDate(o.refunds[i].created_at) : i \in 1..Len(o.refunds) }

\* C14, as stated: a snapshot yields one REFUND fact for every calendar
\* day of its refund sub-records, of the sum of the magnitudes of that
\* day's refund, chargeback and return transactions.
C14_RefundFactPerDay ==
    (applied >= 1 /\ PricesWellFormed) =>
        \A i \in SoleSnapshots :
            LET o == batch[i]
            IN DerivedFacts("REFUND", o.id) =
                 { [order_id |-> o.id, event_type |-> "REFUND", event_date |-> d,
                    amount |-> DayRefund(o, d)] : d \in RefundDays(o) }

\* C14, amended: a snapshot yields one REFUND fact for every calendar day
\* of its refund sub-records on which that sum is more than zero, and no
\* fact for a day on which it is zero.
C14_RefundFactPerPositiveDay ==
    (applied >= 1 /\ PricesWellFormed) =>
        \A i \in SoleSnapshots :
            LET o == batch[i]
            IN /\ DerivedFacts("REFUND", o.id) =
                    { [order_id |-> o.id, event_type |-> "REFUND", event_date |-> d,
                       amount |-> DayRefund(o, d)]
                      : d \in { x \in RefundDays(o) : DayRefund(o, x) > 0 } }
               /\ DerivedFacts("REFUND", o.id) \subseteq returns_fact

\* A snapshot with two refund sub-records of one day, and one whose only
\* sub-record has no transaction of a refund kind.
C14_Witness ==
    /\ applied >= 1 /\ PricesWellFormed
    /\ \E i, j \in SoleSnapshots :
        /\ Len(batch[i].refunds) > 1 /\ Cardinality(RefundDays(batch[i])) = 1
        /\ DerivedFacts("REFUND", batch[i].id) # {}
        /\ RefundDays(batch[j]) # {} /\ DerivedFacts("REFUND", batch[j].id) = {}

\* C15: whatever monetary field of the batch is malformed, the REFUND
\* facts of the well-formed transactions of every snapshot are stored
\* once the reconciler was called.
C15_MalformedFieldSkipped ==
    applied >= 1 =>
        \A i \in SoleSnapshots :
            \A d \in RefundDays(batch[i]) :
                DayRefund(batch[i], d) > 0 =>
                    [order_id |-> batch[i].id, event_type |-> "REFUND", event_date |-> d,
                     amount |-> DayRefund(batch[i], d)] \in returns_fact

\* Every date the four kinds of timestamp of snapshot o imply.
SnapshotDates(o) ==
    {CalendarDate(o.created_at), CalendarDate(o.updated_at)}
    \cup { CalendarDate(o.cancelled_at[i]) : i \in 1..Len(o.cancelled_at) }
    \cup { CalendarDate(o.refunds[i].created_at) : i \in 1..Len(o.refunds) }

\* The least closed interval of dates that covers the dates of the
\* snapshots S; the empty sequence for no snapshot.
Cover(S) ==
    LET dates == UNION { SnapshotDates(o) : o \in S }
    IN IF dates = {} THEN <<>>
       ELSE << CHOOSE d \in dates : \A e \in dates : d <= e,
               CHOOSE d \in dates : \A e \in dates : e <= d >>

\* C16: when the feeds of a run are done, the affected range is the least
\* closed interval covering every date of the snapshots either feed
\* processed, and that is the range the recomputation is given.
C16_AffectedRangeIsCover ==
    /\ pc \in {"completion", "summary"} => affected_dates = Cover(pre.processed)
    /\ pc = "summary" => sumRange = Cover(pre.processed)

\* A recomputation whose range spans several days, its end set by the
\* refund or the cancellation of a processed snapshot.
C16_Witness ==
    /\ pc = "summary"
    /\ sumRange[1] < sumRange[2]
    /\ \E o \in pre.processed :
        /\ CalendarDate(o.created_at) < sumRange[2]
        /\ o.refunds # <<>> \/ o.cancelled_at # <<>>

\* C17: a run in which no fetch returned a snapshot has the affected range
\* (None, None), does not start the recomputation, and leaves every summary
\* table as it was when the run began.
C17_NothingFetchedNothingRecomputed ==
    (pc \in {"completion", "summary", "end"} /\ ~pre.fetched) =>
        /\ affected_dates = <<>>
        /\ pc # "summary"
        /\ sumRange = <<>>
        /\ summary = pre.summary

\* A run ended in which nothing was fetched while the session counters
\* of the tenant changed.
C17_Witness ==
    /\ pc = "end" /\ ~pre.fetched /\ ~run_errors
    /\ \E k \in DOMAIN hourly_sessions_summary : hourly_sessions_summary[k] > 0

\* The order in which the six tables are to be recomputed.
FixedOrder ==
    << "sales_summary", "order_summary", "discount_summary",
       "gross_summary", "hour_wise_sales", "overall_summary" >>

\* The rows of summary table t keyed by a date of the range recomputed.
InRangeRows(t) == { r \in t : InRange(r.date, sumRange[1], sumRange[2]) }

\* The rows the step of table FixedOrder[i] inserts, given the stored data
\* and the summary tables as they stand.
StepRows(i) ==
    InsertRowsOf(FixedOrder[i], summary, shopify_orders, shopify_orders_update,
                 returns_fact, hourly_sessions_summary, sessions_summary,
                 sumRange[1], sumRange[2])

\* C18: during a recomputation the tables after the current one in the
\* fixed order are as they were before it, and every table before the
\* current one holds for the range the rows its step computes from the
\* tables as they now stand; so gross_summary agrees with the
\* discount_summary, and after the last step overall_summary with the five
\* other tables, of the same recomputation.
C18_FixedOrder ==
    /\ pc = "summary" =>
         \A i \in 1..Len(FixedOrder) :
            /\ i > sumStep => summary[FixedOrder[i]] = pre.summary[FixedOrder[i]]
            /\ i < sumStep => InRangeRows(summary[FixedOrder[i]]) = StepRows(i)
    /\ (pc = "end" /\ sumRange # <<>> /\ sumStep = Len(FixedOrder) /\ ~run_errors) =>
         \A i \in 1..Len(FixedOrder) : InRangeRows(summary[FixedOrder[i]]) = StepRows(i)

\* The gross_summary step is done and read a discount_summary row this
\* recomputation wrote.
C18_Witness ==
    /\ pc = "summary" /\ sumStep > 4
    /\ summary.discount_summary # pre.summary.discount_summary
    /\ \E r \in InRangeRows(summary.gross_summary) : r.discounts_total > 0

\* C19: after a recomputation that ran to its end, every table holds for
\* each day of the range the rows a recomputation of all dates gives for
\* that day, and for every other day the rows it held before.
C19_EveryDayOfRange ==
    (pc = "end" /\ sumRange # <<>> /\ sumStep = Len(FixedOrder) /\ ~run_errors) =>
        LET full == FullRecompute(shopify_orders, shopify_orders_update, returns_fact,
                                  hourly_sessions_summary, sessions_summary)
        IN \A n \in DOMAIN summary :
            /\ InRangeRows(summary[n]) = InRangeRows(full[n])
            /\ summary[n] \ InRangeRows(summary[n]) =
                 pre.summary[n] \ InRangeRows(pre.summary[n])

\* A range of several days was recomputed: a day that had rows has new
\* ones, and a day that had none has rows.
C19_Witness ==
    /\ pc = "end" /\ sumStep = Len(FixedOrder) /\ ~run_errors
    /\ sumRange # <<>> /\ sumRange[1] < sumRange[2]
    /\ InRangeRows(pre.summary.sales_summary) # {}
    /\ \E r \in InRangeRows(summary.sales_summary) :
         \A q \in pre.summary.sales_summary : q.date # r.date
    /\ \E r \in InRangeRows(summary.sales_summary) :
         \E q \in pre.summary.sales_summary : q.date = r.date /\ q # r

\* C20: when a recomputation has ended, normally or by an error, every
\* table holds for the range either the rows it held before or the rows
\* a complete recomputation gives.
C20_OldOrRecomputed ==
    (pc = "end" /\ sumRange # <<>>) =>
        LET full == FullRecompute(shopify_orders, shopify_orders_update, returns_fact,
                                  hourly_sessions_summary, sessions_summary)
        IN \A n \in DOMAIN summary :
            \/ InRangeRows(summary[n]) = InRangeRows(pre.summary[n])
            \/ InRangeRows(summary[n]) = InRangeRows(full[n])

\* execute_summary_queries_incremental(lo, hi) run to its end on the
\* summary tables sm, the stored data being that of the current state.
Recomputed(sm, lo, hi) ==
    RecomputeFrom(1, sm, shopify_orders, shopify_orders_update, returns_fact,
                  hourly_sessions_summary, sessions_summary, lo, hi)

\* C21: with the order tables, the fact store and the session tables
\* unchanged, recomputing a date range a second time leaves every summary
\* table with the rows the first recomputation left: for the range a run
\* has just recomputed, and for every range from the rows the summary
\* tables hold when a run ends, after a recomputation, a failed one or none.
C21_RecomputeIdempotent ==
    /\ (pc = "end" /\ sumRange # <<>> /\ sumStep = Len(FixedOrder) /\ ~run_errors) =>
         /\ summary = Recomputed(pre.summary, sumRange[1], sumRange[2])
         /\ Recomputed(summary, sumRange[1], sumRange[2]) = summary
    /\ pc = "end" =>
         \A lo \in 0..MaxDate, hi \in 0..MaxDate :
            lo <= hi =>
               Recomputed(Recomputed(summary, lo, hi), lo, hi) = Recomputed(summary, lo, hi)

\* A recomputation ran to its end and changed rows of sales_summary and of
\* overall_summary, which reads the other tables.
C21_Witness ==
    /\ pc = "end" /\ sumRange # <<>> /\ sumStep = Len(FixedOrder) /\ ~run_errors
    /\ summary.sales_summary # pre.summary.sales_summary
    /\ summary.overall_summary # pre.summary.overall_summary
    /\ summary.gross_summary # pre.summary.gross_summary

\* s is an initial segment of t.
IsPrefix(s, t) == Len(s) <= Len(t) /\ SubSeq(t, 1, Len(s)) = s

\* The steps of the current run among: session refresh, start of the NEW
\* and of the UPDATED feed, start of the recomputation, completion
\* checkpoint.
RunOrder ==
    SelectSeq(pre.steps,
              LAMBDA x : x \in {"sessions", "NEW", "UPDATED", "summary_begin", "completion"})

\* C22: the steps of a run occur in the order session refresh, NEW feed,
\* UPDATED feed, summary recomputation (when a date was affected),
\* completion checkpoint; while the recomputation is running the completion
\* checkpoint of the run has not been persisted.
C22_CompletionLast ==
    /\ \/ IsPrefix(RunOrder, <<"sessions", "NEW", "UPDATED", "summary_begin", "completion">>)
       \/ IsPrefix(RunOrder, <<"sessions", "NEW", "UPDATED", "completion">>)
    /\ pc = "summary" => \A k \in 1..Len(pre.steps) : pre.steps[k] # "completion"

\* The positions of step x in the log of the current run.
StepsAt(x) == { k \in 1..Len(pre.steps) : pre.steps[k] = x }

C24_NoFactsWithoutRows ==
    (pc = "next" /\ ~load_ok) => returns_fact = pre.facts

\* C25: whatever step of a feed failed, when the run ends both feeds have
\* been taken up and the recomputation has been called with the dates
\* merged into the affected range.
C25_FeedFailureContained ==
    pc = "end" =>
        /\ StepsAt("NEW") # {} /\ StepsAt("UPDATED") # {}
        /\ sumRange = affected_dates

\* The rows of summary table t keyed by a date of the range whose
\* recomputation failed in the previous run.
OwedRows(t) == { r \in t : InRange(r.date, pre.owed[1], pre.owed[2]) }

\* C27: when the previous run wrote order rows and its recomputation then
\* failed, a run that ends without an error has recomputed a
\* range that includes the dates of the failed one, and the tables computed
\* from the order tables and the fact store hold for those dates the rows a
\* recomputation of all dates gives.
C27_NextRunRetriesRange ==
    (pc = "end" /\ pre.owed # <<>> /\ ~run_errors) =>
        /\ sumRange # <<>>
        /\ sumRange[1] <= pre.owed[1] /\ pre.owed[2] <= sumRange[2]
        /\ OwedRows(summary.sales_summary) =
             SalesRows(shopify_orders, shopify_orders_update, returns_fact,
                       pre.owed[1], pre.owed[2])
        /\ OwedRows(summary.order_summary) =
             OrderRows(shopify_orders, shopify_orders_update, pre.owed[1], pre.owed[2])

\* The feed of process type i has issued its fetch in the current run.
Fetched(i) ==
    \E k \in StepsAt(process_types[i].type) :
        k < Len(pre.steps) /\ pre.steps[k + 1] = "fetch"

\* C28: without a backfill override, no fetch is under way for a feed whose
\* order table held no row; the iteration of such a feed ends with its
\* table and the fact store as they were and nothing fetched; and when the
\* feed loop is left both feeds have been taken up, each feed with stored
\* rows having issued its fetch.
C28_NoCheckpointSkipped ==
    ~BACKFILL_MODE =>
        /\ pc \in {"fetch", "fetched", "load", "reconcile"} => DOMAIN pre.table # {}
        /\ (pc = "next" /\ DOMAIN pre.table = {}) =>
              /\ TableOf(feed) = pre.table /\ returns_fact = pre.facts
              /\ order_list = <<>> /\ fetch_end = "none" /\ ~Fetched(feed)
        /\ pc = "completion" =>
              \A f \in 1..Len(process_types) :
                 /\ StepsAt(process_types[f].type) # {}
                 /\ Fetched(f) <=> DOMAIN TableOf(f) # {}

\* No override; the NEW feed was skipped for want of stored rows and the
\* UPDATED feed wrote a batch.
C28_Witness ==
    /\ ~BACKFILL_MODE /\ pc = "completion"
    /\ DOMAIN shopify_orders = {}
    /\ ~Fetched(1) /\ Fetched(2) /\ StepsAt("write") # {}

\* The instant, in seconds, a well-formed text of BACKFILL_*_IST denotes:
\* midnight of the day for a date.
OverrideSec(val) == IF val[1].fmt = "date" THEN val[1].v * SecsPerDay ELSE val[1].v

WellFormedText(val) == val # <<>> /\ val[1].fmt \in {"date", "datetime"}

\* The environment asks for the override.
OverrideRequested ==
    env.BACKFILL_MODE # <<>> /\ env.BACKFILL_MODE[1] \in {"true", " True "}

\* The override is requested with both bounds well-formed and start < end.
ValidOverride ==
    /\ OverrideRequested
    /\ WellFormedText(env.BACKFILL_START_IST) /\ WellFormedText(env.BACKFILL_END_IST)
    /\ OverrideSec(env.BACKFILL_START_IST) < OverrideSec(env.BACKFILL_END_IST)

\* The upstream snapshots whose timestamp field lies in [lo, hi] seconds.
SnapshotsBetween(field, lo, hi) ==
    { upstream[i] : i \in { j \in DOMAIN upstream :
                              /\ lo * TicksPerSec <= upstream[j][field]
                              /\ upstream[j][field] <= hi * TicksPerSec } }

\* C29: under a valid override every feed, with or without stored rows,
\* issues its fetch; the window of the fetch is the configured one and what
\* the request matches is what lies in it; the set of boundary ids is
\* empty, and the batch processed is the whole of what was fetched.
C29_OverrideVerbatim ==
    ValidOverride =>
        /\ BACKFILL_MODE
        /\ pc \in {"fetch", "fetched", "load", "reconcile"} =>
              /\ win.start_date.sec = OverrideSec(env.BACKFILL_START_IST)
              /\ win.end_date.sec = OverrideSec(env.BACKFILL_END_IST)
              /\ win.existing_ids = {}
              /\ pre.matching = SnapshotsBetween(process_types[feed].date_field,
                                                 OverrideSec(env.BACKFILL_START_IST),
                                                 OverrideSec(env.BACKFILL_END_IST))
        /\ pc \in {"load", "reconcile"} => filtered = order_list
        /\ pc = "next" => Fetched(feed)

\* Under a valid override a feed processes a snapshot whose id its table
\* stores at the high-water-mark, and the other table was without rows.
C29_Witness ==
    /\ ValidOverride /\ pc = "load"
    /\ DOMAIN pre.table # {}
    /\ \E k \in 1..Len(filtered) :
         filtered[k].id \in
            get_orders_with_same_timestamp(pre.table, process_types[feed].date_field,
                                           LastTs(pre.table, process_types[feed].date_field))
    /\ \E f \in 1..Len(process_types) : DOMAIN TableOf(f) = {}

\* C30: when the override is requested but a bound is missing, empty or
\* unparsable, or start >= end, the mode is off and the run is an
\* incremental one: a feed with stored rows fetches the window after its
\* high-water-mark with the boundary ids, a feed without is skipped, and no
\* exception comes of the configuration.
C30_InvalidOverrideIgnored ==
    (OverrideRequested /\ ~ValidOverride) =>
        /\ ~BACKFILL_MODE
        /\ pc \in {"fetch", "fetched", "load", "reconcile"} =>
              /\ DOMAIN pre.table # {}
              /\ win = WindowOf(pre.table, process_types[feed].date_field, clock)
        /\ (pc = "next" /\ DOMAIN pre.table = {}) => ~Fetched(feed)
        /\ StepsAt("raised") # {} => faults > 0

\* The override is requested with an inverted window, and a feed processes
\* what it fetched after its high-water-mark.
C30_Witness ==
    /\ OverrideRequested
    /\ WellFormedText(env.BACKFILL_START_IST) /\ WellFormedText(env.BACKFILL_END_IST)
    /\ OverrideSec(env.BACKFILL_START_IST) >= OverrideSec(env.BACKFILL_END_IST)
    /\ pc = "load" /\ win.start_date.sec = win.last_ts + 1

\* C26: every execution of run_data_pipeline that runs returns, whichever
\* runs raise; when it has returned, the run of every active tenant has
\* been started and has ended, by return or by an exception, and each
\* exception was caught and logged by the as_completed loop.
C26_TenantFailureIsolated ==
    \A e \in Execs :
        /\ [](job[e] = "returned" =>
                /\ DOMAIN futures[e] \in {{}, active_brand_indices}
                /\ \A i \in DOMAIN futures[e] :
                      /\ futures[e][i] \in {"returned", "raised"}
                      /\ collected[e][i] = IF futures[e][i] = "raised" THEN "failed" ELSE "ok")
        /\ (job[e] = "running") ~> (job[e] = "returned")

\* An execution returned with more tenants than workers, the run of one of
\* them having raised and that of another having returned.
C26_Witness ==
    \E e \in Execs :
        /\ job[e] = "returned"
        /\ Cardinality(active_brand_indices) > max_workers
        /\ \E i, j \in DOMAIN futures[e] :
             /\ futures[e][i] = "raised" /\ collected[e][i] = "failed"
             /\ futures[e][j] = "returned" /\ collected[e][j] = "ok"


\* The slot processed just before slot sl in the loop over the slots from
\* the newest to the oldest: the next more recent slot of the window.
NextMoreRecent(sl, slots) == SetMin({ s \in slots : s > sl })

\* The value the refresh is to store for slot sl of the window.
HourDelta(sl, slots) ==
    Max2(0, ApiCumulative(traffic, sl)
              - IF sl = SetMax(slots) THEN 0
                ELSE ApiCumulative(traffic, NextMoreRecent(sl, slots)))

\* C34: a session refresh that stores anything stores, for every hour slot
\* of its window, max(0, the slot's cumulative counter minus the cumulative
\* counter of the next more recent slot of the window), with 0 subtracted
\* for the newest slot; every stored hourly value is at least 0.
C34_NewestFirstDeltas ==
    [][pc = "sessions" =>
         \/ UNCHANGED sessionVars
         \/ LET slots == TimeSlots(SessionStartTick, clock)
            IN /\ \A sl \in slots :
                    /\ <<SlotDate(sl), SlotHour(sl)>> \in DOMAIN hourly_sessions_summary'
                    /\ hourly_sessions_summary'[<<SlotDate(sl), SlotHour(sl)>>]
                         = HourDelta(sl, slots)
               /\ \A k \in DOMAIN hourly_sessions_summary' :
                    hourly_sessions_summary'[k] >= 0]_vars

\* A refresh over a window of several hours has stored a positive value for
\* an hour that is not the newest of the window.
C34_Witness ==
    /\ pc = "feed" /\ feed = 1 /\ ~run_errors
    /\ \E k \in DOMAIN hourly_sessions_summary :
         /\ hourly_sessions_summary[k] > 0
         /\ k[1] * HoursPerDay + k[2] < clock \div TicksPerHour


\* The snapshots the fetch of the current feed returned.
FetchedSnapshots == { order_list[k] : k \in 1..Len(order_list) }

\* C35: when an incremental feed has gone through its loop body without a
\* failed write, every snapshot it fetched whose feed timestamp is later
\* than the high-water-mark the window was computed from has its row in the
\* feed's table, whatever its id.
C35_DedupKeepsNewer ==
    (pc = "next" /\ load_ok /\ FeedMode(TableOf(feed)) = "incremental") =>
        \A o \in FetchedSnapshots :
            format_datetime(o[process_types[feed].date_field]) > win.last_ts
                => TransformOrder(o) \in DOMAIN TableOf(feed)


\* The feed's table holds the upstream snapshot o as the feed sees it.
Stored(o, i) ==
    \E r \in DOMAIN TableOf(i) :
        /\ r.order_id = o.id
        /\ r[process_types[i].date_field] = format_datetime(o[process_types[i].date_field])

\* C36: as long as every step of every run has succeeded, when a feed has
\* gone through its loop body, every upstream snapshot whose feed timestamp
\* (to the second) is later than the feed's initial high-water-mark, that
\* of the seed order, and earlier than the end of the window just fetched
\* is in the feed's table.  Snapshots whose id the boundary filter drops
\* are left aside: what is stated is the coverage of the windows.
C36_NothingSkipped ==
    (pc = "next" /\ faults = 0 /\ FeedMode(TableOf(feed)) = "incremental") =>
        \A id \in DOMAIN upstream :
            LET ts == format_datetime(upstream[id][process_types[feed].date_field])
            IN (/\ ts > format_datetime(SeedOrder[process_types[feed].date_field])
                /\ ts < win.end_date.sec
                /\ id \notin win.existing_ids)
                 => Stored(upstream[id], feed)


\* C37: in every step, every row of an order table is kept with at least
\* as many copies, and the high-water-mark of a table that has rows does
\* not decrease.
C37_HighWaterMarkMonotone ==
    [][\A i \in 1..Len(process_types) :
         /\ \A r \in DOMAIN TableOf(i) :
              r \in DOMAIN TableOf(i)' /\ TableOf(i)'[r] >= TableOf(i)[r]
         /\ DOMAIN TableOf(i) # {} => HighWaterMark(i)' >= HighWaterMark(i)]_vars

\* A backfill has written, to a table that had rows, a snapshot older than
\* the table's high-water-mark, which is what it was before the feed.
C37_Witness ==
    /\ BACKFILL_MODE /\ pc = "next" /\ load_ok /\ filtered # <<>>
    /\ DOMAIN pre.table # {}
    /\ \E k \in 1..Len(filtered) :
         /\ format_datetime(filtered[k][process_types[feed].date_field])
              < LastTs(pre.table, process_types[feed].date_field)
         /\ Stored(filtered[k], feed)
    /\ HighWaterMark(feed) = LastTs(pre.table, process_types[feed].date_field)


\* C40: a step changes the session checkpoint only when every slot of the
\* window has been fetched and the hourly values and the rollup have been
\* committed, and the new value is the end of the window as captured when
\* the refresh began, to the second; when a call of the refresh has failed,
\* the checkpoint is what it was when the call began.
C40_CheckpointAfterCommit ==
    /\ [][pipeline_metadata'.last_session_fetch_timestamp
            # pipeline_metadata.last_session_fetch_timestamp =>
          /\ sess.pc = "checkpoint" /\ sess.committed /\ ~sess.failed
          /\ sess.fetched = TimeSlots(sess.start_time_ist, sess.end_time_ist)
          /\ hourly_sessions_summary = sess.pending
          /\ pipeline_metadata'.last_session_fetch_timestamp
               = <<RoundToSec(sess.end_time_ist)>>]_vars
    /\ [](sess.failed => pipeline_metadata.last_session_fetch_timestamp = sess.before)

\* A slot of a window of several slots was not answered after another had
\* been fetched, the call has ended, and the stored checkpoint is the one
\* the window began at.
C40_Witness ==
    /\ sess.pc = "done" /\ sess.failed /\ ~sess.committed
    /\ sess.fetched # {} /\ sess.time_slots # {}
    /\ sess.before # <<>>
    /\ pipeline_metadata.last_session_fetch_timestamp = sess.before


\* C31: a tenant for which no connection pool is registered never gets
\* past the guard of process_single_brand: its run executes no statement
\* after it (no session refresh, no fetch, no write), holds no connection
\* and ends by returning, never by an exception; and an execution that
\* returned has started the run of every tenant once and seen it end.
C31_NoPoolTenantSkipped ==
    \A e \in Execs :
        /\ \A i \in DOMAIN brand[e] :
              i \notin DOMAIN db_connection_pools =>
                 /\ brand[e][i].pc \in {0, 1, ProgramEnd}
                 /\ brand[e][i].held = <<>>
                 /\ futures[e][i] # "raised"
                 /\ collected[e][i] # "failed"
        /\ job[e] = "returned" =>
              \A j \in DOMAIN futures[e] :
                 /\ brand[e][j].starts = 1
                 /\ futures[e][j] \in {"returned", "raised"}

\* An execution returned in which the run of a tenant without a pool was
\* skipped and the run of a tenant with a pool went through its statements.
C31_Witness ==
    \E e \in Execs : \E i, j \in DOMAIN futures[e] :
        /\ job[e] = "returned"
        /\ i \notin DOMAIN db_connection_pools
        /\ futures[e][i] = "returned" /\ collected[e][i] = "ok"
        /\ j \in DOMAIN db_connection_pools
        /\ futures[e][j] = "returned" /\ collected[e][j] = "ok"
        /\ brand[e][j].pc = ProgramEnd

\* C32: in an execution of run_data_pipeline the run of every active
\* tenant is submitted, started at most once, and started exactly once by
\* the time the execution returns; at no time do more runs of an execution
\* occupy a worker than min(number of active tenants, max(2, CPU_COUNT
\* div 2)).
C32_OncePerRunBoundedWorkers ==
    \A e \in Execs :
        /\ Cardinality(Busy(e))
             <= Min2(Cardinality(active_brand_indices), Max2(2, CPU_COUNT \div 2))
        /\ job[e] = "running" => DOMAIN futures[e] = active_brand_indices
        /\ \A i \in DOMAIN brand[e] :
              /\ brand[e][i].starts <= 1
              /\ futures[e][i] # "pending" => brand[e][i].starts = 1
        /\ job[e] = "returned" =>
              \A i \in DOMAIN futures[e] : futures[e][i] \in {"returned", "raised"}

\* More tenants than workers: every worker is occupied and a run waits.
C32_Witness ==
    \E e \in Execs :
        /\ job[e] = "running"
        /\ Cardinality(active_brand_indices) > Max2(2, CPU_COUNT \div 2)
        /\ Cardinality(Busy(e)) = Max2(2, CPU_COUNT \div 2)
        /\ \E i \in DOMAIN futures[e] : futures[e][i] = "pending"

\* The original statement of C33: get_db_connection never makes more than
\* attempts attempts, and a run in which an acquisition failed at every
\* attempt does not return.
C33_ExhaustionFatalToRun ==
    \A e \in Execs : \A i \in DOMAIN brand[e] :
        /\ brand[e][i].tries < attempts
        /\ futures[e][i] = "returned" => brand[e][i].exhausted = {}

\* C33: get_db_connection never makes more than attempts attempts; the
\* step in which the last of them fails is taken after attempts - 1 failed
\* ones, takes nothing from the pool and changes no other run; it ends the
\* tenant's run with the exception where the with-block is inside no try
\* (the feed loop, the completion record), and lets it go on after the
\* block where the caller catches and logs (update_sessions_summary,
\* execute_summary_queries_incremental).
C33_BoundedAttemptsThenRaise ==
    /\ [](\A e \in Execs : \A i \in DOMAIN brand[e] : brand[e][i].tries < attempts)
    /\ [][\A e \in Execs : \A i \in DOMAIN brand[e] \cap DOMAIN brand'[e] :
            brand'[e][i].exhausted # brand[e][i].exhausted =>
               LET b == brand[e][i]
                   site == Program[b.pc].site
               IN /\ b.tries = attempts - 1
                  /\ db_connection_pools' = db_connection_pools
                  /\ brand'[e][i].exhausted = b.exhausted \cup {site}
                  /\ brand'[e][i].held = <<>>
                  /\ IF site \in {"feeds", "completion"}
                     THEN futures'[e][i] = "raised"
                     ELSE /\ futures'[e][i] = "running"
                          /\ brand'[e][i].pc = BlockEnd(site)
                  /\ \A x \in Execs : \A j \in DOMAIN brand[x] :
                        <<x, j>> # <<e, i>> =>
                           /\ brand'[x][j] = brand[x][j]
                           /\ futures'[x][j] = futures[x][j]]_vars

\* The run of one tenant ended with the exception of an acquisition that
\* failed at every attempt, and the run of another tenant of the same
\* execution returned.
C33_Witness ==
    \E e \in Execs : \E i, j \in DOMAIN futures[e] :
        /\ futures[e][i] = "raised"
        /\ brand[e][i].exhausted \cap {"feeds", "completion"} # {}
        /\ futures[e][j] = "returned"
        /\ brand[e][j].exhausted = {}

\* C38: a run of process_single_brand holds at most one connection of the
\* tenant's pool; every helper call of the feed loop (window lookup,
\* duplicate lookup, reconciliation, for both feeds) used the connection the
\* loop's with-block holds; every connection of the pool is free, held by
\* the run or checked out by something else; and a run that ended, by
\* return or by exception, holds none.
C38_OneConnectionPerRun ==
    \A e \in Execs : \A i \in DOMAIN brand[e] :
        LET b == brand[e][i]
        IN /\ Len(b.held) <= 1
           /\ b.used \subseteq { b.held[k] : k \in 1..Len(b.held) }
           /\ i \in DOMAIN db_connection_pools =>
                 Len(db_connection_pools[i]) + Len(b.held) + Len(borrowed[i]) = pool_size
           /\ futures[e][i] \in {"returned", "raised"} => b.held = <<>>

\* The feed loop has made helper calls, all with the connection of its
\* with-block, and is about to leave the block.
C38_Witness ==
    \E e \in Execs : \E i \in DOMAIN brand[e] :
        LET b == brand[e][i]
        IN /\ futures[e][i] = "running"
           /\ b.pc = BlockEnd("feeds") - 1
           /\ Len(b.held) = 1
           /\ b.used = {b.held[1]}

\* C39: at most one execution of run_data_pipeline is running at a time, no
\* tenant has a run in progress in two executions, and an execution that is
\* not running has no run in progress.
C39_RunsNeverOverlap ==
    /\ Cardinality({ e \in Execs : job[e] = "running" }) <= max_instances
    /\ \A i \in Brands :
          Cardinality({ e \in Execs : i \in DOMAIN futures[e]
                                        /\ futures[e][i] \in {"pending", "running"} }) <= 1
    /\ \A e \in Execs :
          job[e] # "running" =>
             \A i \in DOMAIN futures[e] : futures[e][i] \in {"returned", "raised"}

\* The scheduler fired while an execution had a run in progress, and the
\* firing was skipped.
C39_Witness ==
    \E e, x \in Execs :
        /\ job[e] = "running" /\ Busy(e) # {}
        /\ job[x] = "skipped"

=============================================================================
